---- MODULE Spec2Model ----
(***************************************************************************)
(* WaveNotes: the note post-processing pipeline (app/transcription/        *)
(* postprocess.py) and the way the main window re-applies it; the MIDI     *)
(* export (app/midi/export_midi.py and the multi-track export of the main  *)
(* window), the preview synthesis of an empty note list                    *)
(* (app/midi/preview_synth.py) and the analysis pipeline                   *)
(* (app/pipeline/analyze_audio.py with app/audio/io.py).                   *)
(*                                                                         *)
(* Times are integers counted in units of 10 microseconds (1 ms = 100      *)
(* units, 1 s = 100000 units), so that a quantize strength given in        *)
(* percent moves a whole-millisecond time to an exact value.  A NoteEvent  *)
(* is a record [start_sec, end_sec, midi_pitch, velocity]; a Settings      *)
(* value is a record with the fields of app/state.py.                      *)
(***************************************************************************)
EXTENDS Integers, Sequences, FiniteSets, TLC

VARIABLES raw_notes, settings, pc, out, cap_todo, active, kept,
          current_notes, runs,
          mido_ok, files, ui, stems_call, wav,
          env, an_pc, progress, trace, an_error, an_notes, session,
          bu_env, bu_pc, warnings, bu_exc, bu_return,
          btn_analyze, btn_midi_play, workers, app, preview_thread,
          preview_wav_path, wav_notes, writers, midi_player

\* what apply_tweaks and the main window's note list work on
tweakVars == <<raw_notes, settings, pc, out, cap_todo, active, kept,
               current_notes, runs>>

\* the MIDI export: whether "import mido" succeeds, the files saved, the
\* outcome shown to the user, the stem transcription result in flight
exportVars == <<mido_ok, files, ui, stems_call>>

\* one call of analyze_audio: its environment, its position, the progress
\* reported, the external steps run, the exception raised, its local
\* note lists and the session returned
analyzeVars == <<env, an_pc, progress, trace, an_error, an_notes, session>>

\* pipeline/analyze_bu.py: what the call finds on the machine, where it is,
\* its warnings list, the exception the try block ended with, what it
\* returned
buVars == <<bu_env, bu_pc, warnings, bu_exc, bu_return>>

\* the main window: the Transcribe and Play MIDI buttons, the analysis
\* workers started and not yet reported, whether the process is running,
\* the preview thread, the cached preview path, the notes preview.wav was
\* rendered from, the executions of render_preview_wav in progress, what
\* the MIDI player was given to play
windowVars == <<btn_analyze, btn_midi_play, workers, app, preview_thread,
                preview_wav_path, wav_notes, writers, midi_player>>

ioVars == <<exportVars, wav, analyzeVars, buVars, windowVars>>

vars == <<tweakVars, ioVars>>

----------------------------------------------------------------------------
(* Bounds of the model *)

MaxNotes == 3

MaxRuns == 2

\* files one behaviour lets the export dialog save
MaxExports == 2

\* stems of one separation
MaxStems == 2

----------------------------------------------------------------------------
(* Arithmetic helpers *)

Max(a, b) == IF a >= b THEN a ELSE b

Min(a, b) == IF a <= b THEN a ELSE b

\* milliseconds -> time units (x / 1000.0 seconds)
Ms(x) == x * 100

\* Python round(t / g) for g > 0: nearest integer, ties to the even one
RoundHalfEven(t, g) ==
    LET q == t \div g
        r == t % g
    IN  IF 2 * r < g THEN q
        ELSE IF 2 * r > g THEN q + 1
        ELSE IF q % 2 = 0 THEN q ELSE q + 1

NoteEvent(st, en, p, v) ==
    [start_sec |-> st, end_sec |-> en, midi_pitch |-> p, velocity |-> v]

----------------------------------------------------------------------------
(* sorted(seq, key=...): Python's sort is stable *)

KeyStartPitch(a, b) ==
    \/ a.start_sec < b.start_sec
    \/ a.start_sec = b.start_sec /\ a.midi_pitch < b.midi_pitch

KeyPitchStartEnd(a, b) ==
    \/ a.midi_pitch < b.midi_pitch
    \/ a.midi_pitch = b.midi_pitch /\ a.start_sec < b.start_sec
    \/ a.midi_pitch = b.midi_pitch /\ a.start_sec = b.start_sec
          /\ a.end_sec < b.end_sec

KeyStartLoudest(a, b) ==
    \/ a.start_sec < b.start_sec
    \/ a.start_sec = b.start_sec /\ a.velocity > b.velocity

\* export_midi: key (seconds, flag), the flag being -1 for an off event
\* and 0 for an on event
KeySecondsFlag(a, b) ==
    \/ a.t < b.t
    \/ a.t = b.t /\ a.flag < b.flag

\* _export_multitrack_midi: key (tick, not is_on), False before True
KeyTickNotOn(a, b) ==
    \/ a.t < b.t
    \/ a.t = b.t /\ a.is_on /\ ~b.is_on

\* the order of the sort key named by key
KeyLess(key, a, b) ==
    CASE key = "start_pitch" -> KeyStartPitch(a, b)
      [] key = "pitch_start_end" -> KeyPitchStartEnd(a, b)
      [] key = "start_loudest" -> KeyStartLoudest(a, b)
      [] key = "seconds_flag" -> KeySecondsFlag(a, b)
      [] key = "tick_not_on" -> KeyTickNotOn(a, b)

\* an element keeps its place among the elements of equal key
SortedBy(seq, key) ==
    LET n == Len(seq)
        rank(i) == Cardinality({j \in 1..n :
                       \/ KeyLess(key, seq[j], seq[i])
                       \/ ~KeyLess(key, seq[i], seq[j]) /\ j < i}) + 1
    IN  [k \in 1..n |-> seq[CHOOSE i \in 1..n : rank(i) = k]]

----------------------------------------------------------------------------
(* _grid_seconds: the grid string is a sequence of one-character strings *)

Digits == <<"0", "1", "2", "3", "4", "5", "6", "7", "8", "9">>

IsDigit(c) == \E d \in 1..10 : Digits[d] = c

DigitVal(c) == (CHOOSE d \in 1..10 : Digits[d] = c) - 1

RECURSIVE DigitsVal(_)
DigitsVal(cs) ==
    IF cs = <<>> THEN 0
    ELSE 10 * DigitsVal(SubSeq(cs, 1, Len(cs) - 1)) + DigitVal(cs[Len(cs)])

\* str.split("/"): the list of parts between the separators
RECURSIVE SplitSlash(_)
SplitSlash(cs) ==
    IF \A i \in 1..Len(cs) : cs[i] # "/" THEN <<cs>>
    ELSE LET k == CHOOSE i \in 1..Len(cs) :
                      cs[i] = "/" /\ \A j \in 1..(i - 1) : cs[j] # "/"
         IN  <<SubSeq(cs, 1, k - 1)>> \o SplitSlash(SubSeq(cs, k + 1, Len(cs)))

\* str.strip(): without the blanks at both ends
RECURSIVE Strip(_)
Strip(cs) ==
    IF cs # <<>> /\ cs[1] = " " THEN Strip(Tail(cs))
    ELSE IF cs # <<>> /\ cs[Len(cs)] = " "
         THEN Strip(SubSeq(cs, 1, Len(cs) - 1))
    ELSE cs

\* int(text): blanks around, an optional sign and at least one digit, else
\* ValueError
ParseInt(text) ==
    LET cs     == Strip(text)
        signed == cs # <<>> /\ cs[1] \in {"+", "-"}
        body   == IF signed THEN Tail(cs) ELSE cs
        ok     == body # <<>> /\ \A i \in 1..Len(body) : IsDigit(body[i])
    IN  [ok  |-> ok,
         val |-> IF ~ok THEN 0
                 ELSE IF signed /\ cs[1] = "-" THEN 0 - DigitsVal(body)
                 ELSE DigitsVal(body)]

\* a zero or negative denominator replaced by 16 instead of raised to 1
GridDenominatorDefault16(grid_str) ==
    LET parts == SplitSlash(grid_str)
        parsed == IF Len(parts) < 2 THEN [ok |-> FALSE, val |-> 0]
                  ELSE ParseInt(parts[2])
    IN  IF parsed.ok /\ parsed.val >= 1 THEN parsed.val ELSE 16

GridDenominator(grid_str) ==
    LET parts == SplitSlash(grid_str)
        parsed == IF Len(parts) < 2 THEN [ok |-> FALSE, val |-> 0]
                  ELSE ParseInt(parts[2])
        denom == IF parsed.ok THEN parsed.val ELSE 16
    IN  Max(1, denom)

\* a tempo used as it comes
GridBpmUnclamped(bpm) == bpm

\* bpm = max(1, int(bpm))
GridBpm(bpm) == Max(1, bpm)

\* 60.0 / bpm or 4.0 / denom raises ZeroDivisionError
GridRaises(bpm, grid_str) ==
    GridBpm(bpm) = 0 \/ GridDenominator(grid_str) = 0

\* (60 / bpm) * (4 / denom) seconds, in time units
GridSeconds(bpm, grid_str) ==
    IF GridRaises(bpm, grid_str) THEN 0
    ELSE (240 * 100000) \div (GridBpm(bpm) * GridDenominator(grid_str))

----------------------------------------------------------------------------
(* Quantize stage *)

\* a pull towards the grid point below instead of the nearest one
QuantizeTimeFloor(t, grid, strength) ==
    IF grid <= 0 THEN t
    ELSE LET target == (t \div grid) * grid
         IN  t + ((target - t) * strength) \div 100

\* strength in percent, already clamped to 0..100
QuantizeTime(t, grid, strength) ==
    IF grid <= 0 THEN t
    ELSE LET target == RoundHalfEven(t, grid) * grid
         IN  t + ((target - t) * strength) \div 100

QuantizeStrength(s) == Max(0, Min(100, s.quantize_strength))

\* a minimum duration without the 1 ms floor
QuantizeMinDurNoFloor(s) == Ms(s.min_note_ms)

\* min_dur = max(0.001, s.min_note_ms / 1000.0)
QuantizeMinDur(s) == Max(Ms(1), Ms(s.min_note_ms))

QuantizeNote(n, grid, strength, min_dur) ==
    LET st0 == QuantizeTime(n.start_sec, grid, strength)
        en0 == QuantizeTime(n.end_sec, grid, strength)
        st_q == IF en0 < st0 THEN en0 ELSE st0
        en1 == IF en0 < st0 THEN st0 ELSE en0
        en_q == IF en1 - st_q < min_dur THEN st_q + min_dur ELSE en1
    IN  NoteEvent(st_q, en_q, n.midi_pitch, n.velocity)

ApplyQuantize(notes, s) ==
    LET grid == GridSeconds(s.quantize_bpm, s.quantize_grid)
        strength == QuantizeStrength(s)
    IN  IF strength <= 0 THEN notes
        ELSE [i \in 1..Len(notes) |->
                 QuantizeNote(notes[i], grid, strength, QuantizeMinDur(s))]

----------------------------------------------------------------------------
(* Merge-gap stage *)

\* a scan whose running end is the end of the note joined last, not the
\* maximum end so far
RECURSIVE MergeRunLastEnd(_, _, _, _, _, _)
MergeRunLastEnd(srt, j, p, en, vel, gap) ==
    IF j <= Len(srt) /\ srt[j].midi_pitch = p
          /\ srt[j].start_sec <= en + gap
    THEN MergeRunLastEnd(srt, j + 1, p, srt[j].end_sec,
                         Max(vel, srt[j].velocity), gap)
    ELSE [j |-> j, en |-> en, vel |-> vel]

\* a scan that joins at most one following note
MergeRunOnce(srt, j, p, en, vel, gap) ==
    IF j <= Len(srt) /\ srt[j].midi_pitch = p
          /\ srt[j].start_sec <= en + gap
    THEN [j |-> j + 1, en |-> Max(en, srt[j].end_sec),
          vel |-> Max(vel, srt[j].velocity)]
    ELSE [j |-> j, en |-> en, vel |-> vel]

RECURSIVE MergeRun(_, _, _, _, _, _)
MergeRun(srt, j, p, en, vel, gap) ==
    IF j <= Len(srt) /\ srt[j].midi_pitch = p
          /\ srt[j].start_sec <= en + gap
    THEN MergeRun(srt, j + 1, p, Max(en, srt[j].end_sec),
                  Max(vel, srt[j].velocity), gap)
    ELSE [j |-> j, en |-> en, vel |-> vel]

RECURSIVE MergeScan(_, _, _)
MergeScan(srt, i, gap) ==
    IF i > Len(srt) THEN <<>>
    ELSE LET cur == srt[i]
             run == MergeRun(srt, i + 1, cur.midi_pitch, cur.end_sec,
                             cur.velocity, gap)
         IN  <<NoteEvent(cur.start_sec, run.en, cur.midi_pitch, run.vel)>>
                 \o MergeScan(srt, run.j, gap)

\* a merge stage that still merges at gap 0
MergeGapAtZero(notes, gap_sec) ==
    IF gap_sec < 0 THEN SortedBy(notes, "start_pitch")
    ELSE SortedBy(MergeScan(SortedBy(notes, "pitch_start_end"), 1, gap_sec),
                  "start_pitch")

MergeGap(notes, gap_sec) ==
    IF gap_sec <= 0 THEN SortedBy(notes, "start_pitch")
    ELSE SortedBy(MergeScan(SortedBy(notes, "pitch_start_end"), 1, gap_sec),
                  "start_pitch")

----------------------------------------------------------------------------
(* Polyphony cap *)

\* an active list that survives from the previous call
CapInitialActiveStale == current_notes

\* active = [] at the start of every call
CapInitialActive == <<>>

\* list.remove(x): drops the first element equal to x; an absent x leaves
\* the list as it is (the ValueError is swallowed)
RemoveFirst(seq, x) ==
    IF \A i \in 1..Len(seq) : seq[i] # x THEN seq
    ELSE LET k == CHOOSE i \in 1..Len(seq) :
                      seq[i] = x /\ \A j \in 1..(i - 1) : seq[j] # x
         IN  SubSeq(seq, 1, k - 1) \o SubSeq(seq, k + 1, Len(seq))

\* an eviction that takes the loudest active note
WorstLoudest(act) ==
    act[CHOOSE i \in 1..Len(act) :
            /\ \A j \in 1..Len(act) : act[i].velocity >= act[j].velocity
            /\ \A j \in 1..(i - 1) : act[j].velocity < act[i].velocity]

\* min(active, key=velocity): the first element of minimal velocity
Worst(act) ==
    act[CHOOSE i \in 1..Len(act) :
            /\ \A j \in 1..Len(act) : act[i].velocity <= act[j].velocity
            /\ \A j \in 1..(i - 1) : act[j].velocity > act[i].velocity]

\* a prune that keeps a note ending exactly at the onset
PruneKeepsTouching(act, t) == SelectSeq(act, LAMBDA a : a.end_sec >= t)

\* prune(t): active = [a for a in active if a.end_sec > t]
Prune(act, t) == SelectSeq(act, LAMBDA a : a.end_sec > t)

\* one iteration of the loop over the notes
CapIter(act, kpt, n, max_polyphony) ==
    LET act1 == Append(Prune(act, n.start_sec), n)
        kpt1 == Append(kpt, n)
    IN  IF Len(act1) > max_polyphony
        THEN [active |-> RemoveFirst(act1, Worst(act1)),
              kept   |-> RemoveFirst(kpt1, Worst(act1))]
        ELSE [active |-> act1, kept |-> kpt1]

RECURSIVE CapLoop(_, _, _, _)
CapLoop(todo, act, kpt, max_polyphony) ==
    IF todo = <<>> THEN kpt
    ELSE LET st == CapIter(act, kpt, Head(todo), max_polyphony)
         IN  CapLoop(Tail(todo), st.active, st.kept, max_polyphony)

CapPolyphony(notes, max_polyphony) ==
    IF max_polyphony <= 0 THEN SortedBy(notes, "start_pitch")
    ELSE SortedBy(CapLoop(SortedBy(notes, "start_loudest"),
                          CapInitialActive, <<>>, max_polyphony),
                  "start_pitch")

----------------------------------------------------------------------------
(* apply_tweaks *)

FilterMinDur(s) == Max(0, Ms(s.min_note_ms))

\* a filter that forgets the velocity threshold
KeepsAnyVelocity(n, s) ==
    /\ ~(n.midi_pitch < s.pitch_min \/ n.midi_pitch > s.pitch_max)
    /\ ~(n.end_sec <= n.start_sec)
    /\ ~(n.end_sec - n.start_sec < FilterMinDur(s))

Keeps(n, s) ==
    /\ ~(n.midi_pitch < s.pitch_min \/ n.midi_pitch > s.pitch_max)
    /\ ~(n.end_sec <= n.start_sec)
    /\ ~(n.end_sec - n.start_sec < FilterMinDur(s))
    /\ ~(n.velocity < s.min_velocity)

\* a filter that deletes the dropped notes from the caller's list
FilterLoopInPlace(raw, s) ==
    [out       |-> SelectSeq(raw, LAMBDA n : Keeps(n, s)),
     raw_notes |-> SelectSeq(raw, LAMBDA n : Keeps(n, s))]

\* the filter loop: what it collects, and the caller's list as it leaves it
\* (the loop only reads raw_notes and appends fresh NoteEvents to out)
FilterLoop(raw, s) ==
    [out       |-> SelectSeq(raw, LAMBDA n : Keeps(n, s)),
     raw_notes |-> raw]

\* the velocity knob taken as it is, without the clamp
OutputVelocityUnclamped(s) == s.velocity

OutputVelocity(s) == Max(1, Min(127, s.velocity))

\* the velocity pass without the closing sort
VelocityPassUnsorted(notes, s) ==
    [i \in 1..Len(notes) |->
        NoteEvent(notes[i].start_sec, notes[i].end_sec,
                  notes[i].midi_pitch, OutputVelocity(s))]

VelocityPass(notes, s) ==
    SortedBy([i \in 1..Len(notes) |->
                 NoteEvent(notes[i].start_sec, notes[i].end_sec,
                           notes[i].midi_pitch, OutputVelocity(s))],
             "start_pitch")

QuantizeStage(notes, s) ==
    IF s.quantize THEN ApplyQuantize(notes, s) ELSE notes

ApplyTweaks(raw, s) ==
    VelocityPass(
        QuantizeStage(
            CapPolyphony(MergeGap(FilterLoop(raw, s).out, Ms(s.merge_gap_ms)),
                         s.max_polyphony),
            s),
        s)

----------------------------------------------------------------------------
(* Inputs: Settings values and raw note lists *)

GridStr16 == <<"1", "/", "1", "6">>

\* Settings() with the defaults of the dataclass
DefaultSettings ==
    [min_note_ms |-> 80, min_velocity |-> 10, merge_gap_ms |-> 30,
     pitch_min |-> 21, pitch_max |-> 108, max_polyphony |-> 10,
     velocity |-> 96, quantize |-> FALSE, quantize_bpm |-> 120,
     quantize_grid |-> GridStr16, quantize_strength |-> 60]

SeqsUpTo(S, n) == UNION {[1..k -> S] : k \in 0..n}

\* notes on the boundaries of the filter: kept, too quiet (min_velocity - 1),
\* too high (pitch_max + 1), too short, empty, inverted, beyond MIDI range
FilterNotes ==
    {NoteEvent(0, Ms(100), 60, 50),
     NoteEvent(0, Ms(100), 60, 9),
     NoteEvent(Ms(20), Ms(120), 109, 50),
     NoteEvent(Ms(40), Ms(119), 60, 50),
     NoteEvent(Ms(50), Ms(50), 64, 50),
     NoteEvent(Ms(90), Ms(60), 64, 50),
     NoteEvent(Ms(10), Ms(200), 128, 50)}

FilterSettings ==
    {DefaultSettings,
     [DefaultSettings EXCEPT !.pitch_min = 0 - 5, !.pitch_max = 130,
                             !.velocity = 0],
     [DefaultSettings EXCEPT !.min_note_ms = 0, !.min_velocity = 0,
                             !.velocity = 200, !.max_polyphony = 0],
     [DefaultSettings EXCEPT !.pitch_min = 70, !.pitch_max = 60,
                             !.merge_gap_ms = 0]}

\* same-pitch notes that touch, overlap, nest or lie 20 ms apart
MergeNotes ==
    {NoteEvent(0, Ms(1000), 60, 50),
     NoteEvent(Ms(1020), Ms(2000), 60, 70),
     NoteEvent(Ms(100), Ms(300), 60, 90),
     NoteEvent(Ms(1000), Ms(1500), 60, 30),
     NoteEvent(Ms(1020), Ms(2000), 62, 50),
     NoteEvent(0, Ms(1000), 60, 20)}

MergeSettings ==
    {[DefaultSettings EXCEPT !.merge_gap_ms = g] : g \in {0 - 5, 0, 10, 50}}

\* three notes on one onset with velocities 40, 90, 60, and later onsets
CapNotes ==
    {NoteEvent(0, Ms(1000), 60, 40),
     NoteEvent(0, Ms(1000), 64, 90),
     NoteEvent(0, Ms(1000), 67, 60),
     NoteEvent(Ms(500), Ms(1500), 72, 40),
     NoteEvent(Ms(1000), Ms(2000), 48, 20),
     NoteEvent(0, Ms(500), 55, 70)}

CapSettings ==
    {[DefaultSettings EXCEPT !.max_polyphony = k] : k \in {0, 1, 2}}

\* notes around the points of a 125 ms grid (120 bpm, 1/16)
QuantNotes ==
    {NoteEvent(Ms(100), Ms(150), 60, 50),
     NoteEvent(Ms(150), Ms(300), 64, 50),
     NoteEvent(Ms(130), Ms(180), 67, 50),
     NoteEvent(0, Ms(125), 60, 50),
     NoteEvent(Ms(40), Ms(480), 72, 50)}

QuantSettings ==
    {[DefaultSettings EXCEPT !.quantize = q, !.quantize_strength = st,
                             !.max_polyphony = k, !.min_note_ms = 40]
        : q \in BOOLEAN, st \in {0, 50, 100}, k \in {1, 2}}
    \cup {[DefaultSettings EXCEPT !.quantize = TRUE, !.quantize_strength = 0,
                                  !.merge_gap_ms = 0, !.max_polyphony = 0]}

GridStr4 == <<"1", "/", "4">>

\* notes around the points of a 0.5 s grid (120 bpm, 1/4); [0.48, 0.52]
\* collapses onto 0.5
SnapNotes ==
    {NoteEvent(Ms(480), Ms(520), 60, 50),
     NoteEvent(Ms(100), Ms(900), 64, 50),
     NoteEvent(Ms(700), Ms(1300), 67, 50)}

SnapSettings ==
    {[DefaultSettings EXCEPT !.quantize = q, !.quantize_grid = GridStr4,
                             !.quantize_strength = st, !.min_note_ms = m]
        : q \in BOOLEAN, st \in {0 - 20, 50, 100, 150}, m \in {0, 30}}

\* grid strings: well formed, blank inside, zero and negative denominator,
\* no slash, no number, empty
GridStrings ==
    {GridStr16, GridStr4, <<"1", "/", " ", "8">>, <<"1", "/", "0">>,
     <<"1", "/", "-", "4">>, <<"a", "b", "c">>, <<"1", "/", "x">>, <<>>}

DegenerateNotes ==
    {NoteEvent(Ms(100), Ms(900), 64, 50),
     NoteEvent(Ms(700), Ms(1300), 67, 50)}

DegenerateSettings ==
    {[DefaultSettings EXCEPT !.quantize = TRUE, !.quantize_strength = 100,
                             !.quantize_bpm = b, !.quantize_grid = g]
        : b \in {0 - 30, 0, 60, 120}, g \in GridStrings}
    \cup {[DefaultSettings EXCEPT !.quantize = TRUE, !.quantize_strength = 0,
                                  !.quantize_bpm = 0, !.merge_gap_ms = 0,
                                  !.max_polyphony = 0, !.pitch_min = p]
             : p \in {21, 120}}

InputsFilter == SeqsUpTo(FilterNotes, MaxNotes) \X FilterSettings

InputsMerge == SeqsUpTo(MergeNotes, MaxNotes) \X MergeSettings

InputsCap == SeqsUpTo(CapNotes, MaxNotes) \X CapSettings

InputsQuant == SeqsUpTo(QuantNotes, MaxNotes) \X QuantSettings

InputsSnap == SeqsUpTo(SnapNotes, MaxNotes) \X SnapSettings

InputsDegenerate == SeqsUpTo(DegenerateNotes, MaxNotes) \X DegenerateSettings

Inputs ==
    InputsFilter \cup InputsMerge \cup InputsCap \cup InputsQuant
        \cup InputsSnap \cup InputsDegenerate

----------------------------------------------------------------------------
(* The state machine: one call of apply_tweaks, stage by stage, and the    *)
(* main window calling it again on the same session                        *)

\* no stem transcription result in flight
NoStemsCall ==
    [ok |-> FALSE, notes_by_stem |-> <<>>, export_multitrack |-> FALSE]

\* nothing exported
IdleExport ==
    /\ files = <<>>
    /\ ui = "idle"

\* nothing rendered, no analysis started
IdleAnalyze ==
    /\ wav = <<>>
    /\ env = [input_exists |-> TRUE, ffmpeg_found |-> TRUE, returncode |-> 0,
              out_exists |-> TRUE, stderr |-> <<>>, stdout |-> <<>>,
              load_ok |-> TRUE, audio_sec |-> 0]
    /\ an_pc = "idle"
    /\ progress = <<>>
    /\ trace = <<>>
    /\ an_error = <<>>
    /\ an_notes = [raw_notes |-> <<>>, current_notes |-> <<>>]
    /\ session = <<>>

\* analyze_bu.analyze_audio has not been called
IdleBu ==
    /\ bu_env = [input_exists |-> TRUE, returncode |-> 0, out_exists |-> TRUE,
                 model_found |-> TRUE, midi_produced |-> TRUE,
                 midi |-> [readable |-> TRUE, ticks_per_beat |-> 480,
                           tracks |-> <<>>]]
    /\ bu_pc = "idle"
    /\ warnings = <<>>
    /\ bu_exc = <<>>
    /\ bu_return = <<>>

\* the main window after construction
IdleWindow ==
    /\ btn_analyze = FALSE
    /\ btn_midi_play = FALSE
    /\ workers = <<>>
    /\ app = "running"
    /\ preview_thread = "none"
    /\ preview_wav_path = "none"
    /\ wav_notes = <<>>
    /\ writers = <<>>
    /\ midi_player = <<>>

IdleIO ==
    /\ mido_ok = TRUE
    /\ stems_call = NoStemsCall
    /\ IdleExport
    /\ IdleAnalyze
    /\ IdleBu
    /\ IdleWindow

InitWith(inputs) ==
    /\ \E in \in inputs : raw_notes = in[1] /\ settings = in[2]
    /\ pc = "filter"
    /\ out = <<>>
    /\ cap_todo = <<>>
    /\ active = <<>>
    /\ kept = <<>>
    /\ current_notes = <<>>
    /\ runs = 1
    /\ IdleIO

Init == InitWith(Inputs)

Filter ==
    /\ pc = "filter"
    /\ out' = FilterLoop(raw_notes, settings).out
    /\ raw_notes' = FilterLoop(raw_notes, settings).raw_notes
    /\ pc' = "merge"
    /\ UNCHANGED <<settings, cap_todo, active, kept, current_notes, runs>>
    /\ UNCHANGED ioVars

Merge ==
    /\ pc = "merge"
    /\ out' = MergeGap(out, Ms(settings.merge_gap_ms))
    /\ pc' = "cap"
    /\ UNCHANGED <<raw_notes, settings, cap_todo, active, kept,
                   current_notes, runs>>
    /\ UNCHANGED ioVars

CapBegin ==
    /\ pc = "cap"
    /\ IF settings.max_polyphony <= 0
       THEN /\ out' = SortedBy(out, "start_pitch")
            /\ pc' = "quantize"
            /\ UNCHANGED <<cap_todo, active, kept>>
       ELSE /\ cap_todo' = SortedBy(out, "start_loudest")
            /\ active' = CapInitialActive
            /\ kept' = <<>>
            /\ pc' = "cap_loop"
            /\ UNCHANGED out
    /\ UNCHANGED <<raw_notes, settings, current_notes, runs>>
    /\ UNCHANGED ioVars

CapStep ==
    /\ pc = "cap_loop"
    /\ cap_todo # <<>>
    /\ LET st == CapIter(active, kept, Head(cap_todo), settings.max_polyphony)
       IN  /\ active' = st.active
           /\ kept' = st.kept
    /\ cap_todo' = Tail(cap_todo)
    /\ UNCHANGED <<raw_notes, settings, pc, out, current_notes, runs>>
    /\ UNCHANGED ioVars

CapEnd ==
    /\ pc = "cap_loop"
    /\ cap_todo = <<>>
    /\ out' = SortedBy(kept, "start_pitch")
    /\ active' = <<>>
    /\ kept' = <<>>
    /\ pc' = "quantize"
    /\ UNCHANGED <<raw_notes, settings, cap_todo, current_notes, runs>>
    /\ UNCHANGED ioVars

\* _grid_seconds runs before the strength is looked at; an exception in
\* it ends the call
Quantize ==
    /\ pc = "quantize"
    /\ IF settings.quantize
             /\ GridRaises(settings.quantize_bpm, settings.quantize_grid)
       THEN pc' = "raised" /\ UNCHANGED out
       ELSE out' = QuantizeStage(out, settings) /\ pc' = "velocity"
    /\ UNCHANGED <<raw_notes, settings, cap_todo, active, kept,
                   current_notes, runs>>
    /\ UNCHANGED ioVars

Velocity ==
    /\ pc = "velocity"
    /\ current_notes' = VelocityPass(out, settings)
    /\ out' = <<>>
    /\ pc' = "done"
    /\ UNCHANGED <<raw_notes, settings, cap_todo, active, kept, runs>>
    /\ UNCHANGED ioVars

\* MainWindow.reapply_tweaks: nothing happens without raw notes
Reapply ==
    /\ pc = "done"
    /\ runs < MaxRuns
    /\ raw_notes # <<>>
    /\ pc' = "filter"
    /\ runs' = runs + 1
    /\ UNCHANGED <<raw_notes, settings, out, cap_todo, active, kept,
                   current_notes>>
    /\ UNCHANGED ioVars

Next ==
    \/ Filter
    \/ Merge
    \/ CapBegin
    \/ CapStep
    \/ CapEnd
    \/ Quantize
    \/ Velocity
    \/ Reapply

Spec == Init /\ [][Next]_vars

SpecFilter == InitWith(InputsFilter) /\ [][Next]_vars

SpecMerge == InitWith(InputsMerge) /\ [][Next]_vars

SpecCap == InitWith(InputsCap) /\ [][Next]_vars

\* notes that tie: two of one onset and pitch with different ends, and a
\* third of the same onset, end and velocity at another pitch
SpecOrder ==
    /\ InitWith(SeqsUpTo({NoteEvent(0, Ms(1000), 60, 50),
                          NoteEvent(0, Ms(2000), 60, 50),
                          NoteEvent(0, Ms(1000), 64, 50)}, MaxNotes)
                   \X {[DefaultSettings EXCEPT !.merge_gap_ms = g,
                                               !.max_polyphony = k]
                          : g \in {0, 30}, k \in {1, 10}})
    /\ [][Next]_vars

SpecQuant == InitWith(InputsQuant) /\ [][Next]_vars

SpecSnap == InitWith(InputsSnap) /\ [][Next]_vars

SpecDegenerate == InitWith(InputsDegenerate) /\ [][Next]_vars

----------------------------------------------------------------------------
(* MIDI export: a track is the sequence of its messages, a file the        *)
(* sequence of its tracks                                                  *)

TicksPerBeat == 480

\* mido.bpm2tempo: microseconds per beat
Bpm2Tempo(bpm) == RoundHalfEven(60 * 1000000, bpm)

MetaSetTempo(tempo) == [type |-> "set_tempo", tempo |-> tempo, time |-> 0]

MetaTrackName(name) == [type |-> "track_name", name |-> name, time |-> 0]

MetaEndOfTrack == [type |-> "end_of_track", time |-> 1]

\* mido.Message("note_on" | "note_off", note=, velocity=, time=)
Message(type, pitch, vel, time) ==
    [type |-> type, note |-> pitch, velocity |-> vel, time |-> time]

\* mido.Message raises ValueError for a data byte outside 0..127
MessagesAccepted(notes) ==
    \A i \in 1..Len(notes) :
        notes[i].midi_pitch \in 0..127 /\ notes[i].velocity \in 0..127

\* export_midi: an on and an off event per note, in the order of the notes
RECURSIVE ExportEvents(_)
ExportEvents(notes) ==
    IF notes = <<>> THEN <<>>
    ELSE LET n == Head(notes)
         IN  <<[t |-> n.start_sec, flag |-> 0, kind |-> "on",
                pitch |-> n.midi_pitch, vel |-> n.velocity],
               [t |-> n.end_sec, flag |-> 0 - 1, kind |-> "off",
                pitch |-> n.midi_pitch, vel |-> 0]>>
                 \o ExportEvents(Tail(notes))

\* export_midi.sec_to_ticks: round(sec / (60 / bpm) * 480); a second is
\* 100000 time units and 480 / 60 is 8
SecToTicks(sec, tempo_bpm) ==
    RoundHalfEven(sec * Max(1, tempo_bpm) * (TicksPerBeat \div 60), 100000)

\* a delta that is the tick itself
DeltaTimeAbsolute(tick, last_tick) == tick

\* delta = max(0, tick - last_tick)
DeltaTime(tick, last_tick) == Max(0, tick - last_tick)

\* the loop over the sorted events, last_tick being the tick of the event
\* before
RECURSIVE ExportMessages(_, _, _)
ExportMessages(events, last_tick, tempo_bpm) ==
    IF events = <<>> THEN <<>>
    ELSE LET e    == Head(events)
             tick == SecToTicks(e.t, tempo_bpm)
         IN  <<Message(IF e.kind = "on" THEN "note_on" ELSE "note_off",
                       e.pitch, IF e.kind = "on" THEN e.vel ELSE 0,
                       DeltaTime(tick, last_tick))>>
                 \o ExportMessages(Tail(events), tick, tempo_bpm)

\* the track export_midi saves
ExportMidi(notes, tempo_bpm) ==
    <<MetaSetTempo(Bpm2Tempo(Max(1, tempo_bpm)))>>
        \o ExportMessages(SortedBy(ExportEvents(notes), "seconds_flag"),
                          0, tempo_bpm)
        \o <<MetaEndOfTrack>>

\* export_midi raises when mido is missing or refuses a message
ExportMidiRaises(notes) == ~mido_ok \/ ~MessagesAccepted(notes)

\* _export_multitrack_midi.sec_to_ticks: max(0, round(sec * ticks_per_sec))
\* with ticks_per_sec = 480 * 1000000 / tempo
StemSecToTicks(sec, tempo) ==
    Max(0, RoundHalfEven(sec * (TicksPerBeat * 10), tempo))

RECURSIVE StemEvents(_, _)
StemEvents(notes, tempo) ==
    IF notes = <<>> THEN <<>>
    ELSE LET n == Head(notes)
         IN  <<[t |-> StemSecToTicks(n.start_sec, tempo), is_on |-> TRUE,
                pitch |-> n.midi_pitch, vel |-> n.velocity],
               [t |-> StemSecToTicks(n.end_sec, tempo), is_on |-> FALSE,
                pitch |-> n.midi_pitch, vel |-> 0]>>
                 \o StemEvents(Tail(notes), tempo)

RECURSIVE StemMessages(_, _)
StemMessages(events, last) ==
    IF events = <<>> THEN <<>>
    ELSE LET e == Head(events)
         IN  <<Message(IF e.is_on THEN "note_on" ELSE "note_off",
                       e.pitch, IF e.is_on THEN e.vel ELSE 0, e.t - last)>>
                 \o StemMessages(Tail(events), e.t)

\* a stem's track: events.sort(key=lambda e: (e[0], not e[1])), then the
\* loop with dt = t - last
StemTrack(stem_name, notes, tempo) ==
    <<MetaTrackName(stem_name)>>
        \o StemMessages(SortedBy(StemEvents(notes, tempo), "tick_not_on"), 0)

\* the tracks _export_multitrack_midi saves: the tempo track and one track
\* per stem, in the order of the dict
ExportMultitrackMidi(notes_by_stem, bpm) ==
    <<<<MetaSetTempo(Bpm2Tempo(bpm))>>>>
        \o [i \in 1..Len(notes_by_stem) |->
               StemTrack(notes_by_stem[i].stem, notes_by_stem[i].notes,
                         Bpm2Tempo(bpm))]

\* the fallback loop: one export_midi call per stem
FallbackFiles(notes_by_stem, out_dir, bpm) ==
    [i \in 1..Len(notes_by_stem) |->
        [path |-> <<out_dir, notes_by_stem[i].stem, ".mid">>,
         tracks |-> <<ExportMidi(notes_by_stem[i].notes, bpm)>>]]

\* merged.extend(notes) over the stems
RECURSIVE MergedStems(_)
MergedStems(notes_by_stem) ==
    IF notes_by_stem = <<>> THEN <<>>
    ELSE Head(notes_by_stem).notes \o MergedStems(Tail(notes_by_stem))

\* the stem loaded for preview: the first preferred name some stem carries,
\* else the first stem (stem names of the model are the preferred names
\* themselves, so startswith is equality)
StemPreference == <<"vocals", "vocal", "other", "bass", "drums">>

PickStem(notes_by_stem) ==
    LET has(k) == \E i \in 1..Len(notes_by_stem) :
                      notes_by_stem[i].stem = StemPreference[k]
    IN  IF \E k \in 1..Len(StemPreference) : has(k)
        THEN LET k == CHOOSE k \in 1..Len(StemPreference) :
                          has(k) /\ \A j \in 1..(k - 1) : ~has(j)
                 i == CHOOSE i \in 1..Len(notes_by_stem) :
                          /\ notes_by_stem[i].stem = StemPreference[k]
                          /\ \A j \in 1..(i - 1) :
                                 notes_by_stem[j].stem # StemPreference[k]
             IN  i
        ELSE IF notes_by_stem # <<>> THEN 1 ELSE 0

\* the path the save dialog returns, empty when it is cancelled
ExportPaths == { <<>>, <<"wavenotes.mid">> }

\* the directory the stems were written to
StemsOutDir == "stems"

\* MainWindow.export_midi_dialog; the tempo is spin_bpm, the widget
\* current_settings reads quantize_bpm from
ExportMidiDialog ==
    /\ pc = "done"
    /\ Len(files) < MaxExports
    /\ \E out_path \in ExportPaths :
           IF current_notes = <<>>
           THEN ui' = "nothing_to_export" /\ UNCHANGED files
           ELSE IF out_path = <<>>
           THEN UNCHANGED <<ui, files>>
           ELSE IF ExportMidiRaises(current_notes)
           THEN ui' = "export_failed" /\ UNCHANGED files
           ELSE /\ files' = Append(files,
                        [path |-> out_path,
                         tracks |-> <<ExportMidi(current_notes,
                                                 settings.quantize_bpm)>>])
                /\ ui' = "exported"
    /\ UNCHANGED <<tweakVars, mido_ok, stems_call, wav, analyzeVars>>
    /\ UNCHANGED <<buVars, windowVars>>

\* the first stem whose export_midi call raises, 0 if none does
FirstRaising(notes_by_stem) ==
    IF \E i \in 1..Len(notes_by_stem) :
           ExportMidiRaises(notes_by_stem[i].notes)
    THEN CHOOSE i \in 1..Len(notes_by_stem) :
             /\ ExportMidiRaises(notes_by_stem[i].notes)
             /\ \A j \in 1..(i - 1) : ~ExportMidiRaises(notes_by_stem[j].notes)
    ELSE 0

\* MainWindow._on_stems_transcribed(result, out_dir, export_multitrack)
OnStemsTranscribed ==
    /\ pc = "done"
    /\ ui = "idle"
    /\ LET notes_by_stem == stems_call.notes_by_stem
           bpm           == settings.quantize_bpm
           out_path      == <<StemsOutDir, "wavenotes_stems.mid">>
           merged        == SortedBy(MergedStems(notes_by_stem), "start_pitch")
           k             == FirstRaising(notes_by_stem)
           pick          == PickStem(notes_by_stem)
           preview       == IF pick # 0
                            THEN current_notes' = notes_by_stem[pick].notes
                            ELSE UNCHANGED current_notes
       IN  IF ~stems_call.ok
           THEN /\ ui' = "stem_transcription_failed"
                /\ UNCHANGED <<files, current_notes>>
           ELSE IF stems_call.export_multitrack /\ mido_ok
           THEN IF \E i \in 1..Len(notes_by_stem) :
                        ~MessagesAccepted(notes_by_stem[i].notes)
                THEN ui' = "export_failed" /\ UNCHANGED <<files, current_notes>>
                ELSE /\ files' = Append(files,
                             [path |-> out_path,
                              tracks |-> ExportMultitrackMidi(notes_by_stem,
                                                              bpm)])
                     /\ ui' = "exported_multitrack"
                     /\ preview
           ELSE IF stems_call.export_multitrack
           THEN IF k # 0
                THEN /\ files' = files \o SubSeq(
                             FallbackFiles(notes_by_stem, StemsOutDir, bpm),
                             1, k - 1)
                     /\ ui' = "export_failed"
                     /\ UNCHANGED current_notes
                ELSE /\ files' = files \o FallbackFiles(notes_by_stem,
                                                        StemsOutDir, bpm)
                     /\ ui' = "exported_per_stem"
                     /\ preview
           ELSE IF ExportMidiRaises(merged)
           THEN ui' = "export_failed" /\ UNCHANGED <<files, current_notes>>
           ELSE /\ files' = Append(files,
                        [path |-> out_path,
                         tracks |-> <<ExportMidi(merged, bpm)>>])
                /\ ui' = "exported_merged"
                /\ preview
    /\ UNCHANGED <<raw_notes, settings, pc, out, cap_todo, active, kept, runs,
                   mido_ok, stems_call, wav, analyzeVars>>
    /\ UNCHANGED <<buVars, windowVars>>

\* the notes the export can find: what apply_tweaks returned last
ExportNotes ==
    { NoteEvent(Ms(100), 50040, 60, 90), NoteEvent(Ms(500), Ms(800), 60, 80),
      NoteEvent(Ms(800), Ms(1200), 60, 70),
      NoteEvent(0 - Ms(50), Ms(300), 64, 60) }

ExportSettings ==
    { [DefaultSettings EXCEPT !.merge_gap_ms = 0, !.min_velocity = 0,
                              !.quantize_bpm = b] : b \in {60, 97, 120} }

InputsExport == SeqsUpTo(ExportNotes, MaxNotes) \X ExportSettings

\* the main window after an analysis, with or without mido installed
InitExport ==
    /\ \E in \in InputsExport :
           /\ raw_notes = in[1]
           /\ settings = in[2]
           /\ current_notes = ApplyTweaks(in[1], in[2])
    /\ pc = "done"
    /\ out = <<>>
    /\ cap_todo = <<>>
    /\ active = <<>>
    /\ kept = <<>>
    /\ runs = 1
    /\ mido_ok \in BOOLEAN
    /\ stems_call = NoStemsCall
    /\ IdleExport
    /\ IdleAnalyze
    /\ IdleBu
    /\ IdleWindow

NextExport == ExportMidiDialog

SpecExport == InitExport /\ [][NextExport]_vars

StemNames == <<"drums", "vocals", "bass">>

StemNotes ==
    { NoteEvent(Ms(100), Ms(500), 60, 96), NoteEvent(Ms(500), Ms(800), 60, 96),
      NoteEvent(Ms(200), Ms(900), 64, 96) }

\* note lists as a transcription returns them, in the order of their starts
StemNoteLists ==
    { s \in SeqsUpTo(StemNotes, MaxNotes - 1) : SortedBy(s, "start_pitch") = s }

\* dicts of at most MaxStems stems, in insertion order
StemDicts ==
    { d \in SeqsUpTo([stem : {StemNames[i] : i \in 1..Len(StemNames)},
                      notes : StemNoteLists], MaxStems) :
        \A i, j \in 1..Len(d) : i # j => d[i].stem # d[j].stem }

\* TranscribeStemsWorker.finished: ok with the notes, or not ok with none
StemsCalls ==
    [ok : {TRUE}, notes_by_stem : StemDicts, export_multitrack : BOOLEAN]
        \cup [ok : {FALSE}, notes_by_stem : {<<>>},
              export_multitrack : BOOLEAN]

InitStems ==
    /\ raw_notes = <<>>
    /\ settings \in ExportSettings
    /\ current_notes = <<>>
    /\ pc = "done"
    /\ out = <<>>
    /\ cap_todo = <<>>
    /\ active = <<>>
    /\ kept = <<>>
    /\ runs = 1
    /\ mido_ok \in BOOLEAN
    /\ stems_call \in StemsCalls
    /\ IdleExport
    /\ IdleAnalyze
    /\ IdleBu
    /\ IdleWindow

NextStems == OnStemsTranscribed

SpecStems == InitStems /\ [][NextStems]_vars

----------------------------------------------------------------------------
(* Preview synthesis: the WAV file render_preview_wav writes, as its       *)
(* header fields and its frames (a count and what they hold)               *)

\* the sample rate used as it comes
PreviewRateAsGiven(sr) == sr

\* sr = 44100 if sr <= 0 else sr
PreviewRate(sr) == IF sr <= 0 THEN 44100 ELSE sr

\* int(sr * 0.1)
SilenceFrames(sr) == sr \div 10

\* n_samples = int(max(0.1, end1 - start0) * sr), for whole milliseconds
SynthFrames(notes, sr) ==
    LET starts == {notes[i].start_sec : i \in 1..Len(notes)}
        ends   == {notes[i].end_sec : i \in 1..Len(notes)}
        start0 == CHOOSE x \in starts : \A y \in starts : x <= y
        end1   == CHOOSE x \in ends : \A y \in ends : y <= x
        length == Max(Ms(100), end1 - start0)
    IN  ((length \div 100) * sr) \div 1000

RenderPreviewWav(notes, sr) ==
    IF notes = <<>>
    THEN [nchannels |-> 1, sampwidth |-> 2, framerate |-> PreviewRate(sr),
          nframes |-> SilenceFrames(PreviewRate(sr)), frames |-> "zero"]
    ELSE [nchannels |-> 1, sampwidth |-> 2, framerate |-> PreviewRate(sr),
          nframes |-> SynthFrames(notes, PreviewRate(sr)),
          frames |-> "synth"]

PreviewNotes ==
    { NoteEvent(0, Ms(500), 60, 90), NoteEvent(Ms(250), Ms(1000), 64, 80),
      NoteEvent(Ms(500), Ms(1500), 67, 70) }

InputsPreview == SeqsUpTo(PreviewNotes, MaxNotes) \X {DefaultSettings}

\* the sample rates a session can carry
PreviewRates == {0 - 1, 0, 1, 9, 15, 8000, 22050, 44100}

\* render_preview_wav(self.current_notes, out, sr=session.sample_rate)
RenderPreview ==
    /\ pc = "done"
    /\ wav = <<>>
    /\ session # <<>>
    /\ wav' = <<RenderPreviewWav(current_notes, session[1].sample_rate)>>
    /\ UNCHANGED <<tweakVars, exportVars, analyzeVars>>
    /\ UNCHANGED <<buVars, windowVars>>

InitPreview ==
    /\ \E in \in InputsPreview :
           /\ raw_notes = in[1]
           /\ settings = in[2]
           /\ current_notes = ApplyTweaks(in[1], in[2])
    /\ pc = "done"
    /\ out = <<>>
    /\ cap_todo = <<>>
    /\ active = <<>>
    /\ kept = <<>>
    /\ runs = 1
    /\ mido_ok = TRUE
    /\ stems_call = NoStemsCall
    /\ IdleExport
    /\ wav = <<>>
    /\ env = [input_exists |-> TRUE, ffmpeg_found |-> TRUE, returncode |-> 0,
              out_exists |-> TRUE, stderr |-> <<>>, stdout |-> <<>>,
              load_ok |-> TRUE, audio_sec |-> 0]
    /\ an_pc = "returned"
    /\ progress = <<>>
    /\ trace = <<>>
    /\ an_error = <<>>
    /\ an_notes = [raw_notes |-> raw_notes, current_notes |-> current_notes]
    /\ \E sr \in PreviewRates :
           session = <<[sample_rate |-> sr, raw_notes |-> raw_notes,
                        current_notes |-> current_notes, warnings |-> <<>>]>>
    /\ IdleBu
    /\ IdleWindow

NextPreview == RenderPreview

SpecPreview == InitPreview /\ [][NextPreview]_vars

----------------------------------------------------------------------------
(* analyze_audio: decode, load, transcribe, apply_tweaks; the report of a   *)
(* milestone is one step, the stage that follows it another                *)

\* an exception: its class, its message and the decoder output it quotes
Exception(type, message, diagnostic) ==
    [type |-> type, message |-> message, diagnostic |-> diagnostic]

\* the decoder is run with a file that does not exist
DecodeSkipsExistsCheck(e) == FALSE

\* decode_to_wav: if not input_path.exists(): raise FileNotFoundError
DecodeMissingInput(e) == ~e.input_exists

\* err = (proc.stderr or proc.stdout or "").strip()
DecoderDiagnostic(e) ==
    Strip(IF e.stderr # <<>> THEN e.stderr ELSE e.stdout)

\* proc.returncode != 0 or not out_wav_path.exists()
DecodeFailed(e) == e.returncode # 0 \/ ~e.out_exists

\* PolyphonicStubTranscriber.transcribe: four notes over
\* max(2, min(8, len(audio) / sr)) seconds
StubPitches == <<60, 64, 67, 72>>

StubTranscribe(audio_sec, s) ==
    LET dur  == Max(2, Min(8, audio_sec)) * 100000
        step == dur \div Len(StubPitches)
    IN  [i \in 1..Len(StubPitches) |->
            NoteEvent((i - 1) * step, (i - 1) * step + (step * 9) \div 10,
                      StubPitches[i], s.velocity)]

\* the milestones of transcription and post-processing exchanged
MilestonesSwapped ==
    [decode |-> 5, load |-> 25, transcribe |-> 75, tweak |-> 55,
     return |-> 100]

\* the percentage emit() is called with before each stage, the last being
\* the return
Milestones ==
    [decode |-> 5, load |-> 25, transcribe |-> 55, tweak |-> 75,
     return |-> 100]

\* the milestone of stage p has been passed to the progress callback
Reported(p) == \E i \in 1..Len(progress) : progress[i] = Milestones[p]

\* emit(pct, msg): the progress callback is called before the stage runs
AnalyzeEmit ==
    /\ an_pc \in DOMAIN Milestones
    /\ ~Reported(an_pc)
    /\ progress' = Append(progress, Milestones[an_pc])
    /\ UNCHANGED <<tweakVars, exportVars, wav, env, an_pc, trace, an_error,
                   an_notes, session>>
    /\ UNCHANGED <<buVars, windowVars>>

\* decode_to_wav(input_path, decoded_wav, 16000)
AnalyzeDecode ==
    /\ an_pc = "decode"
    /\ Reported(an_pc)
    /\ IF DecodeMissingInput(env)
       THEN /\ an_error' = <<Exception("FileNotFoundError", "input_path",
                                       <<>>)>>
            /\ an_pc' = "raised"
            /\ UNCHANGED trace
       ELSE IF ~env.ffmpeg_found
       THEN /\ an_error' = <<Exception("RuntimeError", "FFmpeg not found",
                                       <<>>)>>
            /\ an_pc' = "raised"
            /\ UNCHANGED trace
       ELSE /\ trace' = Append(trace, "ffmpeg")
            /\ IF DecodeFailed(env)
               THEN /\ an_error' = <<Exception("RuntimeError",
                                               "FFmpeg failed to decode",
                                               DecoderDiagnostic(env))>>
                    /\ an_pc' = "raised"
               ELSE an_pc' = "load" /\ UNCHANGED an_error
    /\ UNCHANGED <<tweakVars, exportVars, wav, env, progress, an_notes,
                   session>>
    /\ UNCHANGED <<buVars, windowVars>>

\* load_wav_mono_float32(wav_path)
AnalyzeLoad ==
    /\ an_pc = "load"
    /\ Reported(an_pc)
    /\ trace' = Append(trace, "load")
    /\ IF ~env.load_ok
       THEN /\ an_error' = <<Exception("LibsndfileError", "sf.read", <<>>)>>
            /\ an_pc' = "raised"
       ELSE an_pc' = "transcribe" /\ UNCHANGED an_error
    /\ UNCHANGED <<tweakVars, exportVars, wav, env, progress, an_notes,
                   session>>
    /\ UNCHANGED <<buVars, windowVars>>

\* raw_notes = transcriber.transcribe(audio, sr, settings)
AnalyzeTranscribe ==
    /\ an_pc = "transcribe"
    /\ Reported(an_pc)
    /\ trace' = Append(trace, "transcribe")
    /\ an_notes' = [an_notes EXCEPT
                        !.raw_notes = StubTranscribe(env.audio_sec, settings)]
    /\ an_pc' = "tweak"
    /\ UNCHANGED <<tweakVars, exportVars, wav, env, progress, an_error,
                   session>>
    /\ UNCHANGED <<buVars, windowVars>>

\* current_notes = apply_tweaks(raw_notes, settings)
AnalyzeTweak ==
    /\ an_pc = "tweak"
    /\ Reported(an_pc)
    /\ trace' = Append(trace, "apply_tweaks")
    /\ IF settings.quantize
             /\ GridRaises(settings.quantize_bpm, settings.quantize_grid)
       THEN /\ an_error' = <<Exception("ZeroDivisionError", "_grid_seconds",
                                       <<>>)>>
            /\ an_pc' = "raised"
            /\ UNCHANGED an_notes
       ELSE /\ an_notes' = [an_notes EXCEPT
                   !.current_notes = ApplyTweaks(an_notes.raw_notes, settings)]
            /\ an_pc' = "return"
            /\ UNCHANGED an_error
    /\ UNCHANGED <<tweakVars, exportVars, wav, env, progress, session>>
    /\ UNCHANGED <<buVars, windowVars>>

\* return AnalysisSession(...)
AnalyzeReturn ==
    /\ an_pc = "return"
    /\ Reported(an_pc)
    /\ session' = <<[sample_rate |-> 16000,
                     raw_notes |-> an_notes.raw_notes,
                     current_notes |-> an_notes.current_notes,
                     warnings |-> <<>>]>>
    /\ an_pc' = "returned"
    /\ UNCHANGED <<tweakVars, exportVars, wav, env, progress, trace,
                   an_error, an_notes>>
    /\ UNCHANGED <<buVars, windowVars>>

\* what the decoder prints: nothing, text, text between blanks
DecoderOutputs == { <<>>, <<"e", "r", "r">>, <<" ", "e", "r", "r", " ">> }

AnalyzeEnvs ==
    [input_exists : BOOLEAN, ffmpeg_found : BOOLEAN, returncode : {0, 1},
     out_exists : BOOLEAN, stderr : DecoderOutputs,
     stdout : { <<>>, <<"o", "u", "t">> }, load_ok : BOOLEAN,
     audio_sec : {1, 4}]

AnalyzeSettings ==
    { DefaultSettings, [DefaultSettings EXCEPT !.quantize = TRUE] }

InitAnalyze ==
    /\ raw_notes = <<>>
    /\ settings \in AnalyzeSettings
    /\ current_notes = <<>>
    /\ pc = "done"
    /\ out = <<>>
    /\ cap_todo = <<>>
    /\ active = <<>>
    /\ kept = <<>>
    /\ runs = 1
    /\ mido_ok = TRUE
    /\ stems_call = NoStemsCall
    /\ IdleExport
    /\ wav = <<>>
    /\ env \in AnalyzeEnvs
    /\ an_pc = "decode"
    /\ progress = <<>>
    /\ trace = <<>>
    /\ an_error = <<>>
    /\ an_notes = [raw_notes |-> <<>>, current_notes |-> <<>>]
    /\ session = <<>>
    /\ IdleBu
    /\ IdleWindow

NextAnalyze ==
    \/ AnalyzeEmit
    \/ AnalyzeDecode
    \/ AnalyzeLoad
    \/ AnalyzeTranscribe
    \/ AnalyzeTweak
    \/ AnalyzeReturn

SpecAnalyze == InitAnalyze /\ [][NextAnalyze]_vars

----------------------------------------------------------------------------
(* pipeline/analyze_bu.py: analyze_audio, Basic Pitch with a fallback to   *)
(* dummy notes                                                             *)

\* NoteEvent of app.midi.model, which carries a channel
ChannelNote(start_sec, end_sec, midi_pitch, velocity, channel) ==
    [start_sec |-> start_sec, end_sec |-> end_sec, midi_pitch |-> midi_pitch,
     velocity |-> velocity, channel |-> channel]

\* _dummy_notes: seven notes of 0.35 s, one every 0.40 s
DummyNotes ==
    [i \in 1..7 |->
        ChannelNote((i - 1) * Ms(400), (i - 1) * Ms(400) + Ms(350),
                    <<60, 64, 67, 72, 67, 64, 60>>[i], 96, 0)]

\* a call of _decode_to_wav(input_path, out_dir, warnings=None) with the
\* arguments given: a missing input_path or out_dir is a TypeError before
\* the body runs; then the existence check and the decoder's outcome
DecodeToWavRaises(e, given) ==
    IF ~({"input_path", "out_dir"} \subseteq given)
    THEN <<Exception("TypeError", "missing required argument", <<>>)>>
    ELSE IF ~e.input_exists
    THEN <<Exception("FileNotFoundError", "input_path", <<>>)>>
    ELSE IF e.returncode # 0 \/ ~e.out_exists
    THEN <<Exception("RuntimeError", "FFmpeg decode failed", <<>>)>>
    ELSE <<>>

\* one message of a track: time advances by mido.tick2second (here in
\* units of 10 microseconds), a tempo change is taken over, a note_on with
\* a velocity opens a note in the dict active, a note_off or a note_on
\* with velocity 0 closes and pops the open note of its channel and pitch
ScanMessage(msg, ticks_per_beat, st) ==
    LET now == IF msg.time # 0
               THEN st.time + (msg.time * st.tempo) \div (ticks_per_beat * 10)
               ELSE st.time
        key == <<msg.channel, msg.note>>
    IN  IF msg.type = "set_tempo"
        THEN [st EXCEPT !.time = now, !.tempo = msg.tempo]
        ELSE IF msg.type = "note_on" /\ msg.velocity > 0
        THEN [st EXCEPT !.time = now,
                        !.active = [k \in DOMAIN st.active \cup {key} |->
                                       IF k = key THEN <<now, msg.velocity>>
                                       ELSE st.active[k]]]
        ELSE IF msg.type \in {"note_off", "note_on"}
                  /\ key \in DOMAIN st.active
        THEN [st EXCEPT !.time = now,
                        !.active = [k \in DOMAIN st.active \ {key} |->
                                       st.active[k]],
                        !.notes = Append(st.notes,
                            ChannelNote(st.active[key][1],
                                        Max(st.active[key][1] + Ms(1), now),
                                        msg.note, st.active[key][2],
                                        msg.channel))]
        ELSE [st EXCEPT !.time = now]

\* for track in mid.tracks, for msg in track: time and active start afresh
\* with each track, the tempo is carried on; the first track that yields
\* notes ends the loop
RECURSIVE ScanTracks(_, _, _, _, _)
ScanTracks(tracks, k, i, ticks_per_beat, st) ==
    IF k > Len(tracks) THEN st.notes
    ELSE IF i <= Len(tracks[k])
    THEN ScanTracks(tracks, k, i + 1, ticks_per_beat,
                    ScanMessage(tracks[k][i], ticks_per_beat, st))
    ELSE IF st.notes # <<>> THEN st.notes
    ELSE ScanTracks(tracks, k + 1, 1, ticks_per_beat,
                    [st EXCEPT !.time = 0, !.active = <<>>])

\* _midi_to_notes: tempo starts at 500000 (120 bpm)
MidiToNotes(mid) ==
    SortedBy(ScanTracks(mid.tracks, 1, 1, mid.ticks_per_beat,
                        [time |-> 0, tempo |-> 500000, active |-> <<>>,
                         notes |-> <<>>]),
             "start_pitch")

\* the calls of the try block in order, each with the exception it raises
\* if it raises: _decode_to_wav without out_dir (line 35), the model
\* lookup, _decode_to_wav into the temporary directory, the model lookup,
\* Basic Pitch leaving no *.mid, mido.MidiFile on a file that is not MIDI
TryRaises(e) ==
    LET model == IF e.model_found THEN <<>>
                 ELSE <<Exception("FileNotFoundError",
                                  "Could not find Basic Pitch model", <<>>)>>
    IN  DecodeToWavRaises(e, {"input_path", "warnings"})
            \o model
            \o DecodeToWavRaises(e, {"input_path", "out_dir", "warnings"})
            \o model
            \o (IF e.midi_produced THEN <<>>
                ELSE <<Exception("RuntimeError",
                                 "basic_pitch did not produce a MIDI file",
                                 <<>>)>>)
            \o (IF e.midi.readable THEN <<>>
                ELSE <<Exception("OSError", "MThd not found", <<>>)>>)

\* a handler for RuntimeError only
ExceptRuntimeError(exc) == exc.type = "RuntimeError"

\* except Exception: every class raised here derives from Exception
ExceptException(exc) ==
    exc.type \in {"TypeError", "FileNotFoundError", "RuntimeError", "OSError"}

\* the try block: the first exception ends it; without one the notes of
\* the MIDI file are returned from inside the with block
BuTry ==
    /\ bu_pc = "try"
    /\ IF TryRaises(bu_env) = <<>>
       THEN /\ bu_return' = <<[notes |-> MidiToNotes(bu_env.midi),
                               sr |-> 44100, warnings |-> warnings]>>
            /\ bu_pc' = "returned"
            /\ UNCHANGED bu_exc
       ELSE /\ bu_exc' = <<Head(TryRaises(bu_env))>>
            /\ bu_pc' = IF ExceptException(Head(TryRaises(bu_env)))
                        THEN "except" ELSE "raised"
            /\ UNCHANGED bu_return
    /\ UNCHANGED <<tweakVars, exportVars, wav, analyzeVars, bu_env, warnings>>
    /\ UNCHANGED windowVars

\* the handler: the warning 'basic_pitch failed: <type>: <text>', the
\* warning 'Falling back to dummy notes.' and the dummy notes
BuExcept ==
    /\ bu_pc = "except"
    /\ warnings' = warnings \o
           <<[text |-> "basic_pitch failed", type |-> bu_exc[1].type,
              message |-> bu_exc[1].message],
             [text |-> "Falling back to dummy notes.", type |-> "",
              message |-> ""]>>
    /\ bu_return' = <<[notes |-> DummyNotes, sr |-> 44100,
                       warnings |-> warnings']>>
    /\ bu_pc' = "returned"
    /\ UNCHANGED <<tweakVars, exportVars, wav, analyzeVars, bu_env, bu_exc>>
    /\ UNCHANGED windowVars

\* the MIDI files Basic Pitch may leave: two notes, the second closed by a
\* note_on of velocity 0; a file without notes; a file that is not MIDI
InitBu ==
    /\ raw_notes = <<>>
    /\ settings = DefaultSettings
    /\ current_notes = <<>>
    /\ pc = "done"
    /\ out = <<>>
    /\ cap_todo = <<>>
    /\ active = <<>>
    /\ kept = <<>>
    /\ runs = 1
    /\ mido_ok = TRUE
    /\ stems_call = NoStemsCall
    /\ IdleExport
    /\ IdleAnalyze
    /\ bu_env \in
         [input_exists : BOOLEAN, returncode : {0, 1}, out_exists : BOOLEAN,
          model_found : BOOLEAN, midi_produced : BOOLEAN,
          midi :
            {[readable |-> TRUE, ticks_per_beat |-> 500,
              tracks |-> <<
                <<[type |-> "note_on", time |-> 0, note |-> 64,
                   velocity |-> 80, channel |-> 0, tempo |-> 0],
                  [type |-> "note_on", time |-> 250, note |-> 60,
                   velocity |-> 70, channel |-> 0, tempo |-> 0],
                  [type |-> "note_off", time |-> 250, note |-> 64,
                   velocity |-> 0, channel |-> 0, tempo |-> 0],
                  [type |-> "note_on", time |-> 500, note |-> 60,
                   velocity |-> 0, channel |-> 0, tempo |-> 0]>> >>],
             [readable |-> TRUE, ticks_per_beat |-> 500,
              tracks |-> << <<>> >>],
             [readable |-> FALSE, ticks_per_beat |-> 500, tracks |-> <<>>]}]
    /\ bu_pc = "try"
    /\ warnings = <<>>
    /\ bu_exc = <<>>
    /\ bu_return = <<>>
    /\ IdleWindow

SpecBu == InitBu /\ [][BuTry \/ BuExcept]_vars

----------------------------------------------------------------------------
(* ui/main_window_bu.py: the main window's handlers. Each handler runs to  *)
(* its end on the UI thread; an execution of render_preview_wav is a step  *)
(* that starts writing preview.wav and a step that finishes                *)

MaxWorkers == 2

MaxPlays == 1

\* QObject.moveToThread moves every object
MoveToThreadAlways(has_parent) == "worker"

\* QObject.moveToThread: an object with a parent cannot be moved and stays
\* in the thread of its parent
MoveToThread(has_parent) == IF has_parent THEN "ui" ELSE "worker"

\* the UI thread is not inside render_preview_wav
UiIdle == \A i \in 1..Len(writers) : writers[i].thread # "ui"

\* AnalysisSession(input_path=p, decoded_wav_path=p, sample_rate=44100)
AnalysisSession(input_path, notes) ==
    [input_path |-> input_path, sample_rate |-> 44100, raw_notes |-> notes,
     current_notes |-> notes, warnings |-> <<>>]

\* reapply_tweaks: the new self.current_notes for a session, the widgets'
\* settings and the notes shown so far
Reapplied(sess, s, notes) ==
    IF sess = <<>> \/ sess[1].raw_notes = <<>> THEN notes
    ELSE ApplyTweaks(sess[1].raw_notes, s)

\* open_audio with a file chosen
OpenAudio ==
    /\ app = "running"
    /\ UiIdle
    /\ \E p \in {"a.mp3", "b.mp3"} : session' = <<AnalysisSession(p, <<>>)>>
    /\ btn_analyze' = TRUE
    /\ btn_midi_play' = FALSE
    /\ UNCHANGED <<tweakVars, exportVars, wav, env, an_pc, progress, trace,
                   an_error, an_notes, buVars, workers, app, preview_thread,
                   preview_wav_path, wav_notes, writers, midi_player>>

\* a click on Transcribe: start_analyze. The QThread of a worker still
\* running loses its last reference here; the process goes on or is ended
\* by Qt
StartAnalyze ==
    /\ app = "running"
    /\ UiIdle
    /\ btn_analyze
    /\ session # <<>>
    /\ Len(workers) < MaxWorkers
    /\ btn_analyze' = FALSE
    /\ workers' = Append(workers, [input_path |-> session[1].input_path])
    /\ app' \in IF workers = <<>> THEN {"running"} ELSE {"running", "aborted"}
    /\ UNCHANGED <<tweakVars, exportVars, wav, analyzeVars, buVars,
                   btn_midi_play, preview_thread, preview_wav_path, wav_notes,
                   writers, midi_player>>

\* AnalyzeWorker.finished reaches _on_analyze_done: the session is
\* replaced, the tweaks are applied, and _kickoff_preview_render starts the
\* preview thread if there are notes and it is not running.
\* The analysis returned nothing, one note, or a note and a quiet one
AnalyzeDone ==
    /\ app = "running"
    /\ UiIdle
    /\ \E i \in 1..Len(workers),
          notes \in {<<>>,
                     <<NoteEvent(0, Ms(1000), 60, 50)>>,
                     <<NoteEvent(0, Ms(1000), 60, 50),
                       NoteEvent(Ms(500), Ms(1500), 64, 5)>>} :
          /\ workers' = SubSeq(workers, 1, i - 1)
                            \o SubSeq(workers, i + 1, Len(workers))
          /\ current_notes' =
                 Reapplied(<<AnalysisSession(workers[i].input_path, notes)>>,
                           settings, current_notes)
          /\ session' = <<[AnalysisSession(workers[i].input_path, notes)
                              EXCEPT !.current_notes =
                                  IF notes = <<>> THEN notes
                                  ELSE current_notes']>>
    /\ btn_analyze' = TRUE
    /\ btn_midi_play' = TRUE
    /\ preview_thread' =
           IF current_notes' = <<>> \/ preview_thread \in {"started", "running"}
           THEN preview_thread
           ELSE "started"
    /\ UNCHANGED <<raw_notes, settings, pc, out, cap_todo, active, kept, runs,
                   exportVars, wav, env, an_pc, progress, trace, an_error,
                   an_notes, buVars, app, preview_wav_path, wav_notes,
                   writers, midi_player>>

\* AnalyzeWorker.failed reaches _on_analyze_failed: the error is shown in
\* a message box
AnalyzeFailed ==
    /\ app = "running"
    /\ UiIdle
    /\ \E i \in 1..Len(workers) :
          workers' = SubSeq(workers, 1, i - 1)
                         \o SubSeq(workers, i + 1, Len(workers))
    /\ an_error' = <<Exception("Exception", "Transcription failed", <<>>)>>
    /\ btn_analyze' = TRUE
    /\ UNCHANGED <<tweakVars, exportVars, wav, env, an_pc, progress, trace,
                   an_notes, session, buVars, btn_midi_play, app,
                   preview_thread, preview_wav_path, wav_notes, writers,
                   midi_player>>

\* the min_velocity widget of the tweak panel changes: reapply_tweaks
SettingsChanged ==
    /\ app = "running"
    /\ UiIdle
    /\ settings' \in {DefaultSettings,
                      [DefaultSettings EXCEPT !.min_velocity = 0]}
                         \ {settings}
    /\ current_notes' = Reapplied(session, settings', current_notes)
    /\ session' = IF session = <<>> \/ session[1].raw_notes = <<>>
                  THEN session
                  ELSE <<[session[1] EXCEPT !.current_notes = current_notes']>>
    /\ UNCHANGED <<raw_notes, pc, out, cap_todo, active, kept, runs,
                   exportVars, wav, env, an_pc, progress, trace, an_error,
                   an_notes, buVars, windowVars>>

\* a click on Play MIDI: play_midi with _ensure_preview_wav(force=False);
\* without a session or notes _kickoff_preview_render returns at once
PlayMidi ==
    /\ app = "running"
    /\ UiIdle
    /\ btn_midi_play
    /\ Len(midi_player) < MaxPlays
    /\ IF session = <<>> \/ current_notes = <<>>
       THEN UNCHANGED <<writers, midi_player, preview_thread>>
       ELSE IF wav # <<>> /\ preview_wav_path = "preview.wav"
       THEN /\ midi_player' =
                   Append(midi_player, [source |-> wav[1],
                                        rendered_from |-> wav_notes,
                                        current_notes |-> current_notes])
            /\ UNCHANGED <<writers, preview_thread>>
       ELSE /\ writers' = Append(writers,
                       [thread |-> "ui", caller |-> "play_midi",
                        notes |-> current_notes,
                        sr |-> session[1].sample_rate])
            /\ UNCHANGED <<midi_player, preview_thread>>
    /\ UNCHANGED <<tweakVars, exportVars, wav, analyzeVars, buVars,
                   btn_analyze, btn_midi_play, workers, app, preview_wav_path,
                   wav_notes>>

\* QThread.started reaches PreviewRenderWorker.run in the thread the worker
\* lives in; the worker is constructed with the window as its parent,
\* super().__init__(owner). It calls _ensure_preview_wav(force=True)
PreviewWorkerRun ==
    /\ app = "running"
    /\ preview_thread = "started"
    /\ MoveToThread(TRUE) = "ui" => UiIdle
    /\ IF session = <<>> \/ current_notes = <<>>
       THEN preview_thread' = "finished" /\ UNCHANGED writers
       ELSE /\ preview_thread' = "running"
            /\ writers' = Append(writers,
                       [thread |-> MoveToThread(TRUE), caller |-> "worker",
                        notes |-> current_notes,
                        sr |-> session[1].sample_rate])
    /\ UNCHANGED <<tweakVars, exportVars, wav, analyzeVars, buVars,
                   btn_analyze, btn_midi_play, workers, app, preview_wav_path,
                   wav_notes, midi_player>>

\* render_preview_wav returns: preview.wav is written, the path is cached,
\* play_midi goes on to play it, the worker emits finished
RenderEnd ==
    /\ app = "running"
    /\ \E i \in 1..Len(writers) :
          /\ wav' = <<RenderPreviewWav(writers[i].notes, writers[i].sr)>>
          /\ wav_notes' = writers[i].notes
          /\ writers' = SubSeq(writers, 1, i - 1)
                            \o SubSeq(writers, i + 1, Len(writers))
          /\ IF writers[i].caller = "play_midi"
             THEN /\ midi_player' =
                         Append(midi_player,
                                [source |-> wav'[1],
                                 rendered_from |-> wav_notes',
                                 current_notes |-> current_notes])
                  /\ UNCHANGED preview_thread
             ELSE /\ preview_thread' = "finished"
                  /\ UNCHANGED midi_player
    /\ preview_wav_path' = "preview.wav"
    /\ UNCHANGED <<tweakVars, exportVars, analyzeVars, buVars, btn_analyze,
                   btn_midi_play, workers, app>>

InitWindow ==
    /\ raw_notes = <<>>
    /\ settings = DefaultSettings
    /\ current_notes = <<>>
    /\ pc = "done"
    /\ out = <<>>
    /\ cap_todo = <<>>
    /\ active = <<>>
    /\ kept = <<>>
    /\ runs = 1
    /\ mido_ok = TRUE
    /\ stems_call =
           [ok |-> TRUE,
            notes_by_stem |->
                <<[stem |-> "vocals",
                   notes |-> <<NoteEvent(Ms(100), Ms(500), 60, 96)>>]>>,
            export_multitrack |-> FALSE]
    /\ IdleExport
    /\ IdleAnalyze
    /\ IdleBu
    /\ IdleWindow

\* the events of the window; TranscribeStemsWorker.finished reaches
\* _on_stems_transcribed like the other handlers, on the idle UI thread
NextWindow ==
    \/ OpenAudio
    \/ StartAnalyze
    \/ AnalyzeDone
    \/ AnalyzeFailed
    \/ SettingsChanged
    \/ (app = "running" /\ UiIdle /\ OnStemsTranscribed)
    \/ PlayMidi
    \/ PreviewWorkerRun
    \/ RenderEnd

SpecWindow == InitWindow /\ [][NextWindow]_vars

----------------------------------------------------------------------------
(* Type invariant *)

TypeOK ==
    /\ pc \in {"filter", "merge", "cap", "cap_loop", "quantize", "velocity",
               "done", "raised"}
    /\ runs \in 1..(MaxRuns + 1)
    /\ ui \in {"idle", "nothing_to_export", "export_failed", "exported",
               "stem_transcription_failed", "exported_multitrack",
               "exported_per_stem", "exported_merged"}
    /\ stems_call.ok \/ session # <<>> \/ Len(current_notes) <= Len(raw_notes)
    /\ mido_ok \in BOOLEAN
    /\ Len(files) <= MaxExports + MaxStems
    /\ Len(wav) <= 1
    /\ an_pc \in {"idle", "decode", "load", "transcribe", "tweak", "return",
                  "returned", "raised"}
    /\ Len(an_error) <= 1
    /\ Len(session) <= 1
    /\ Len(progress) <= 5
    /\ Len(trace) <= 4
    /\ bu_pc \in {"idle", "try", "except", "returned", "raised"}
    /\ Len(warnings) <= 2
    /\ Len(bu_exc) <= 1
    /\ Len(bu_return) <= 1
    /\ btn_analyze \in BOOLEAN
    /\ btn_midi_play \in BOOLEAN
    /\ Len(workers) <= MaxWorkers
    /\ app \in {"running", "aborted"}
    /\ preview_thread \in {"none", "started", "running", "finished"}
    /\ preview_wav_path \in {"none", "preview.wav"}
    /\ Len(writers) <= 2
    /\ Len(midi_player) <= MaxPlays

----------------------------------------------------------------------------
(* Properties of the result of apply_tweaks *)

Elems(seq) == {seq[i] : i \in 1..Len(seq)}

SortedStartPitch(seq) ==
    \A i \in 1..(Len(seq) - 1) :
        \/ seq[i].start_sec < seq[i + 1].start_sec
        \/ /\ seq[i].start_sec = seq[i + 1].start_sec
           /\ seq[i].midi_pitch <= seq[i + 1].midi_pitch

\* C1: the list apply_tweaks returns is sorted non-decreasingly by
\* (start_sec, midi_pitch) and each of its notes has end_sec > start_sec
SortInvariant ==
    pc = "done" =>
        /\ SortedStartPitch(current_notes)
        /\ \A n \in Elems(current_notes) : n.end_sec > n.start_sec

\* a quantized run on an unsorted input that returns several notes
SortInvariantWitness ==
    /\ pc = "done"
    /\ settings.quantize
    /\ settings.quantize_strength > 0
    /\ Len(current_notes) >= 2
    /\ ~SortedStartPitch(raw_notes)

\* C2: every note apply_tweaks returns has 0 <= midi_pitch <= 127
PitchInMidiRange ==
    pc = "done" =>
        \A n \in Elems(current_notes) : 0 <= n.midi_pitch /\ n.midi_pitch <= 127

\* C3: every returned note has velocity clamp(settings.velocity, 1, 127),
\* whatever the velocities of the raw notes
VelocityOverride ==
    pc = "done" =>
        \A n \in Elems(current_notes) :
            /\ n.velocity = (IF settings.velocity < 1 THEN 1
                             ELSE IF settings.velocity > 127 THEN 127
                             ELSE settings.velocity)
            /\ n.velocity \in 1..127

\* a knob above the range, and raw notes of another velocity came through
VelocityOverrideWitness ==
    /\ pc = "done"
    /\ settings.velocity > 127
    /\ current_notes # <<>>
    /\ \A n \in Elems(raw_notes) : n.velocity # 127

\* C4: a second call on the same raw notes and Settings returns the note
\* sequence the first call returned (current_notes still holds the first
\* result when the second call assigns its own)
RerunSameResult ==
    [][pc' = "done" /\ runs' >= 2 => current_notes' = current_notes]_vars

\* the second call has returned several notes
RerunSameResultWitness ==
    /\ pc = "done"
    /\ runs = 2
    /\ Len(current_notes) >= 2

\* C5: no step of apply_tweaks changes the caller's raw_notes list
RawNotesUntouched == [][raw_notes' = raw_notes]_vars

\* a call through the early returns (gap <= 0, max_polyphony <= 0,
\* strength <= 0) whose result differs from the raw list
RawNotesUntouchedWitness ==
    /\ pc = "done"
    /\ settings.merge_gap_ms <= 0
    /\ settings.max_polyphony <= 0
    /\ settings.quantize
    /\ settings.quantize_strength <= 0
    /\ raw_notes # <<>>
    /\ current_notes # raw_notes

----------------------------------------------------------------------------
(* Properties of the stages *)

Count(seq, x) == Cardinality({i \in 1..Len(seq) : seq[i] = x})

SameBag(a, b) ==
    /\ Len(a) = Len(b)
    /\ \A x \in Elems(a) \cup Elems(b) : Count(a, x) = Count(b, x)

SetMax(S) == CHOOSE x \in S : \A y \in S : y <= x

SetMin(S) == CHOOSE x \in S : \A y \in S : x <= y

\* the keep condition as the filter is described
KeepCondition(n) ==
    /\ settings.pitch_min <= n.midi_pitch
    /\ n.midi_pitch <= settings.pitch_max
    /\ n.end_sec > n.start_sec
    /\ n.end_sec - n.start_sec >= Ms(settings.min_note_ms)
    /\ n.velocity >= settings.min_velocity

\* every note of res starts where a kept note of its pitch starts and ends
\* where a kept note of its pitch ends
SpannedBy(res, keptRaw) ==
    \A o \in Elems(res) :
        /\ \E n \in Elems(keptRaw) :
               n.midi_pitch = o.midi_pitch /\ n.start_sec = o.start_sec
        /\ \E n \in Elems(keptRaw) :
               n.midi_pitch = o.midi_pitch /\ n.end_sec = o.end_sec

\* C6: the filter step keeps a raw note iff pitch_min <= midi_pitch <=
\* pitch_max, end_sec > start_sec, end_sec - start_sec >= min_note_ms/1000
\* and velocity >= min_velocity; the result of the call is the result on
\* the kept notes alone, and without quantization each returned note starts
\* and ends where kept notes of its pitch do
FilterCorrectness ==
    [][/\ pc = "filter" => out' = SelectSeq(raw_notes, KeepCondition)
       /\ pc' = "done" =>
             /\ current_notes' =
                    ApplyTweaks(SelectSeq(raw_notes, KeepCondition), settings)
             /\ ~settings.quantize =>
                    SpannedBy(current_notes',
                              SelectSeq(raw_notes, KeepCondition))]_vars

\* the filter has run on a list holding a note of velocity min_velocity - 1
\* and a note of pitch pitch_max + 1, and has kept another note
FilterCorrectnessWitness ==
    /\ pc = "merge"
    /\ \E n \in Elems(raw_notes) : n.velocity = settings.min_velocity - 1
    /\ \E n \in Elems(raw_notes) : n.midi_pitch = settings.pitch_max + 1
    /\ out # <<>>
    /\ Len(out) < Len(raw_notes)

\* the input notes that the merged note o stands for
Group(in, o, gap) ==
    {i \in 1..Len(in) :
        /\ in[i].midi_pitch = o.midi_pitch
        /\ o.start_sec <= in[i].start_sec
        /\ in[i].start_sec <= o.end_sec + gap}

MergedAsDescribed(in, res, gap) ==
    /\ SortedStartPitch(res)
    /\ Len(res) = Cardinality(Elems(res))
    /\ \A i \in 1..Len(in) :
           Cardinality({o \in Elems(res) : i \in Group(in, o, gap)}) = 1
    /\ \A o \in Elems(res) :
           LET G == Group(in, o, gap)
           IN  /\ G # {}
               /\ o.start_sec = SetMin({in[i].start_sec : i \in G})
               /\ o.end_sec = SetMax({in[i].end_sec : i \in G})
               /\ o.velocity = SetMax({in[i].velocity : i \in G})
               \* each later note was within the gap of the running end
               /\ \A i \in G :
                      in[i].start_sec > o.start_sec =>
                          in[i].start_sec <= gap +
                              SetMax({in[j].end_sec : j \in
                                  {k \in G : in[k].start_sec < in[i].start_sec}})
    \* notes left apart were beyond the gap
    /\ \A a, b \in Elems(res) :
           a.midi_pitch = b.midi_pitch /\ a.start_sec < b.start_sec =>
               b.start_sec > a.end_sec + gap

\* C7: with gap_sec > 0 the merge stage joins the next note of a pitch group
\* into the running note exactly when next.start_sec <= running end + gap,
\* the running end being the maximum end so far; the emitted note has the
\* first start, the maximum end and the maximum velocity; pitches are never
\* mixed.  Same-pitch [0,1] and [1.02,2] give [0,2] at 50 ms and stay two
\* notes at 10 ms
MergeCorrectness ==
    [][pc = "merge" /\ settings.merge_gap_ms > 0 =>
          /\ MergedAsDescribed(out, out', Ms(settings.merge_gap_ms))
          /\ out = <<NoteEvent(0, Ms(1000), 60, 50),
                     NoteEvent(Ms(1020), Ms(2000), 60, 70)>> =>
                 out' = IF settings.merge_gap_ms = 50
                        THEN <<NoteEvent(0, Ms(2000), 60, 70)>>
                        ELSE out]_vars

\* [0,1] and [1.02,2] have been merged into [0,2] at 50 ms
MergeCorrectnessWitness ==
    /\ pc = "cap"
    /\ settings.merge_gap_ms = 50
    /\ raw_notes = <<NoteEvent(0, Ms(1000), 60, 50),
                     NoteEvent(Ms(1020), Ms(2000), 60, 70)>>
    /\ out = <<NoteEvent(0, Ms(2000), 60, 70)>>

\* C8: with merge_gap_ms <= 0 the merge stage returns the multiset of its
\* input notes, fields unchanged, sorted by (start_sec, midi_pitch)
MergePassThrough ==
    [][pc = "merge" /\ settings.merge_gap_ms <= 0 =>
          SameBag(out, out') /\ SortedStartPitch(out')]_vars

\* gap <= 0 and two same-pitch notes that touch or overlap are both there
\* after the stage
MergePassThroughWitness ==
    /\ pc = "cap"
    /\ settings.merge_gap_ms <= 0
    /\ \E i, j \in 1..Len(out) :
           /\ i # j
           /\ out[i].midi_pitch = out[j].midi_pitch
           /\ out[i].start_sec <= out[j].start_sec
           /\ out[j].start_sec <= out[i].end_sec

\* the k loudest notes of a list with pairwise distinct velocities
Loudest(seq, k) ==
    {n \in Elems(seq) :
        Cardinality({m \in Elems(seq) : m.velocity > n.velocity}) < k}

OneOnsetDistinctVelocities(seq) ==
    /\ seq # <<>>
    /\ \A i, j \in 1..Len(seq) :
           /\ seq[i].start_sec = seq[j].start_sec
           /\ i # j => seq[i].velocity # seq[j].velocity

\* C9: with max_polyphony = k >= 1 the cap removes a note only at an onset
\* where, after pruning the notes with end_sec <= onset and admitting the
\* new note, more than k notes are active, and the removed note has the
\* minimum velocity among them; notes on one onset with pairwise distinct
\* velocities are cut down to the k loudest
CapEviction ==
    [][/\ pc = "cap_loop" /\ cap_todo # <<>> =>
             LET n == Head(cap_todo)
                 sounding == Append(SelectSeq(active,
                                 LAMBDA a : a.end_sec > n.start_sec), n)
             IN  IF Len(sounding) > settings.max_polyphony
                 THEN \E w \in Elems(sounding) :
                         /\ \A a \in Elems(sounding) : w.velocity <= a.velocity
                         /\ SameBag(Append(kept', w), Append(kept, n))
                         /\ SameBag(Append(active', w), sounding)
                 ELSE kept' = Append(kept, n) /\ active' = sounding
       /\ pc = "cap_loop" /\ pc' = "quantize"
             /\ OneOnsetDistinctVelocities(out) =>
             /\ Elems(out') = Loudest(out, settings.max_polyphony)
             /\ Len(out') = Cardinality(Elems(out'))]_vars

\* the velocities 40, 90, 60 on one onset have been cut to 90 and 60
CapEvictionWitness ==
    /\ pc = "quantize"
    /\ settings.max_polyphony = 2
    /\ {n.velocity : n \in Elems(raw_notes)} = {40, 90, 60}
    /\ \A n \in Elems(raw_notes) : n.start_sec = 0
    /\ {n.velocity : n \in Elems(out)} = {90, 60}

\* C10: with max_polyphony = k >= 1 the returned list never has more than
\* k notes sounding at a time t (start_sec <= t < end_sec); the count can
\* only rise at the start of a note, so the starts are the times to look at
PolyphonyRespected ==
    pc = "done" /\ settings.max_polyphony >= 1 =>
        \A i \in 1..Len(current_notes) :
            Cardinality({j \in 1..Len(current_notes) :
                /\ current_notes[j].start_sec <= current_notes[i].start_sec
                /\ current_notes[i].start_sec < current_notes[j].end_sec})
              <= settings.max_polyphony

----------------------------------------------------------------------------
(* Properties of the quantize stage and of the grid *)

Abs(x) == IF x < 0 THEN 0 - x ELSE x

\* the grid and the strength in percent the stage works with
StageGrid == GridSeconds(settings.quantize_bpm, settings.quantize_grid)

StagePercent ==
    IF settings.quantize_strength < 0 THEN 0
    ELSE IF settings.quantize_strength > 100 THEN 100
    ELSE settings.quantize_strength

\* a note after the stage as described: both endpoints quantized, swapped
\* when inverted, the end pushed to start + floor when the note is shorter
QuantizedWithFloor(n, floor) ==
    LET a  == QuantizeTime(n.start_sec, StageGrid, StagePercent)
        b  == QuantizeTime(n.end_sec, StageGrid, StagePercent)
        lo == IF b < a THEN b ELSE a
        hi == IF b < a THEN a ELSE b
    IN  NoteEvent(lo, IF hi - lo < floor THEN lo + floor ELSE hi,
                  n.midi_pitch, n.velocity)

\* C11 as stated: with strength > 0 a quantized note shorter than
\* min_note_ms/1000 gets end = start + min_note_ms/1000, for every
\* min_note_ms >= 0
QuantizeFloorAsStated ==
    [][pc = "quantize" /\ pc' = "velocity" /\ settings.quantize
          /\ StagePercent > 0 /\ settings.min_note_ms >= 0 =>
          /\ Len(out') = Len(out)
          /\ \A i \in 1..Len(out) :
                 out'[i] = QuantizedWithFloor(out[i], Ms(settings.min_note_ms))
      ]_vars

\* C11 amended: the end is pushed to start + max(0.001 s, min_note_ms/1000);
\* [0.48, 0.52] on a 0.5 s grid at strength 100 becomes [0.5, 0.5 + floor]
QuantizeFloor ==
    [][pc = "quantize" /\ pc' = "velocity" /\ settings.quantize
          /\ StagePercent > 0 /\ settings.min_note_ms >= 0 =>
          LET floor == IF settings.min_note_ms < 1 THEN Ms(1)
                       ELSE Ms(settings.min_note_ms)
          IN  /\ Len(out') = Len(out)
              /\ \A i \in 1..Len(out) :
                     /\ out'[i] = QuantizedWithFloor(out[i], floor)
                     /\ out[i].start_sec = Ms(480) /\ out[i].end_sec = Ms(520)
                           /\ StageGrid = Ms(500) /\ StagePercent = 100 =>
                           /\ out'[i].start_sec = Ms(500)
                           /\ out'[i].end_sec = Ms(500) + floor
      ]_vars

\* [0.48, 0.52] has collapsed onto 0.5 with min_note_ms = 0 and came out
\* 1 ms long
QuantizeFloorWitness ==
    /\ pc = "velocity"
    /\ settings.quantize
    /\ settings.quantize_strength = 100
    /\ settings.min_note_ms = 0
    /\ \E n \in Elems(raw_notes) : n.start_sec = Ms(480) /\ n.end_sec = Ms(520)
    /\ \E n \in Elems(out) : n.start_sec = Ms(500) /\ n.end_sec = Ms(501)

\* r is t pulled by the strength towards a grid multiple nearest to t
Pulled(t, r) ==
    \E k \in ((t \div StageGrid) - 1)..((t \div StageGrid) + 1) :
        /\ \A m \in ((t \div StageGrid) - 1)..((t \div StageGrid) + 1) :
               Abs(k * StageGrid - t) <= Abs(m * StageGrid - t)
        /\ r = t + ((k * StageGrid - t) * StagePercent) \div 100

\* C12 as stated: with quantize enabled every endpoint t of a note is moved
\* to t + (g - t) * s
QuantizeEveryEndpoint ==
    [][pc = "quantize" /\ pc' = "velocity" /\ settings.quantize =>
          /\ Len(out') = Len(out)
          /\ \A i \in 1..Len(out) :
                 /\ Pulled(out[i].start_sec, out'[i].start_sec)
                 /\ Pulled(out[i].end_sec, out'[i].end_sec)]_vars

\* C12 amended: every start is moved to t + (g - t) * s, and every end too
\* unless the minimum-duration floor replaces it; with strength 0 or
\* quantize disabled the stage changes nothing, with strength 100 every
\* start is a grid multiple, and an endpoint given by the formula moves by
\* at most half a grid step
QuantizeFormula ==
    [][pc = "quantize" /\ pc' = "velocity" =>
          /\ Len(out') = Len(out)
          /\ ~settings.quantize \/ StagePercent = 0 => out' = out
          /\ settings.quantize /\ StagePercent > 0 =>
                \A i \in 1..Len(out) :
                    LET floor == IF settings.min_note_ms < 1 THEN Ms(1)
                                 ELSE Ms(settings.min_note_ms)
                        floored ==
                            out'[i].end_sec = out'[i].start_sec + floor
                    IN  /\ Pulled(out[i].start_sec, out'[i].start_sec)
                        /\ Pulled(out[i].end_sec, out'[i].end_sec) \/ floored
                        /\ 2 * Abs(out'[i].start_sec - out[i].start_sec)
                               <= StageGrid
                        /\ ~floored =>
                               2 * Abs(out'[i].end_sec - out[i].end_sec)
                                   <= StageGrid
                        /\ StagePercent = 100 =>
                               out'[i].start_sec % StageGrid = 0
      ]_vars

\* at strength 50 a start off the grid has moved half of the way to it
QuantizeFormulaWitness ==
    /\ pc = "velocity"
    /\ settings.quantize
    /\ settings.quantize_strength = 50
    /\ \E n \in Elems(raw_notes) : n.start_sec = Ms(700)
    /\ \E n \in Elems(out) : n.start_sec = Ms(600)

\* C13: apply_tweaks raises in no stage and returns a list, also for
\* max_polyphony = 0, merge_gap_ms = 0, quantize_strength = 0,
\* quantize_bpm <= 0, pitch_min > pitch_max and the empty list
NeverRaises ==
    /\ pc # "raised"
    /\ pc = "done" =>
           /\ DOMAIN current_notes = 1..Len(current_notes)
           /\ Len(current_notes) <= Len(raw_notes)

\* a call with quantize_bpm <= 0 on a malformed grid has returned notes
NeverRaisesWitness ==
    /\ pc = "done"
    /\ settings.quantize
    /\ settings.quantize_strength > 0
    /\ settings.quantize_bpm <= 0
    /\ settings.quantize_grid = <<"1", "/", "0">>
    /\ current_notes # <<>>

\* the denominator of a grid string: the number after the slash, and
\* fallback where there is none; zero and negative numbers count as
\* malformed when badIsMalformed, else they are raised to 1
ReadDenominator(grid_str, fallback, badIsMalformed) ==
    CASE grid_str = <<"1", "/", "1", "6">> -> 16
      [] grid_str = <<"1", "/", "4">> -> 4
      [] grid_str = <<"1", "/", " ", "8">> -> 8
      [] grid_str = <<"1", "/", "0">> -> IF badIsMalformed THEN fallback ELSE 1
      [] grid_str = <<"1", "/", "-", "4">> ->
             IF badIsMalformed THEN fallback ELSE 1
      [] OTHER -> fallback

\* C14 as stated: _grid_seconds is (60/bpm) * (4/denominator), and every
\* malformed grid string, zero and negative denominators included, counts
\* as denominator 16
GridDefaultAsStated ==
    [][pc = "quantize" /\ settings.quantize /\ settings.quantize_bpm >= 1 =>
          /\ pc' # "raised"
          /\ StageGrid * settings.quantize_bpm
                 * ReadDenominator(settings.quantize_grid, 16, TRUE)
               = 240 * 100000]_vars

\* C14 amended: with bpm taken as max(1, bpm), a grid string without '/'
\* or with a non-numeric denominator counts as denominator 16, a zero or
\* negative denominator as 1, and no error is raised
GridDefault ==
    [][pc = "quantize" /\ settings.quantize =>
          /\ pc' # "raised"
          /\ StageGrid
                 * (IF settings.quantize_bpm < 1 THEN 1
                    ELSE settings.quantize_bpm)
                 * ReadDenominator(settings.quantize_grid, 16, FALSE)
               = 240 * 100000]_vars

\* the stage has run on the grid "1/0" and snapped onto whole notes
GridDefaultWitness ==
    /\ pc = "velocity"
    /\ settings.quantize
    /\ settings.quantize_bpm = 120
    /\ settings.quantize_grid = <<"1", "/", "0">>
    /\ out # <<>>
    /\ \A n \in Elems(out) : n.start_sec % Ms(2000) = 0

----------------------------------------------------------------------------
(* Properties of the MIDI export *)

\* the tick a message of a track lies at: the sum of the delta times up to it
RECURSIVE AbsTick(_, _)
AbsTick(track, i) ==
    IF i = 0 THEN 0 ELSE AbsTick(track, i - 1) + track[i].time

IsNoteMessage(m) == m.type \in {"note_on", "note_off"}

\* no note_on precedes a note_off lying at the same tick
OffFirst(track) ==
    \A i, j \in 1..Len(track) :
        i < j /\ track[i].type = "note_on" /\ track[j].type = "note_off" =>
            AbsTick(track, i) # AbsTick(track, j)

NonNegativeTimes(notes) ==
    \A i \in 1..Len(notes) : notes[i].start_sec >= 0 /\ notes[i].end_sec >= 0

\* C15: in the stream of the single-track export_midi, a note-off and a
\* note-on on the same tick are written off first, also when their times in
\* seconds differ (notes of the model last longer than a tick, so the two
\* events belong to different notes)
SingleTrackOffFirst ==
    ui = "exported" /\ NonNegativeTimes(current_notes) =>
        \A f \in 1..Len(files) : OffFirst(files[f].tracks[1])

\* round(sec * bpm / 60 * 480): the integer nearest to it
NearestTick(sec, bpm) ==
    LET x == sec * bpm * 8
    IN  CHOOSE T \in (x \div 100000)..((x \div 100000) + 1) :
            2 * Abs(T * 100000 - x) <= 100000

\* the note messages of a track with the ticks they lie at
RECURSIVE TickedMessages(_, _)
TickedMessages(track, i) ==
    IF i = 0 THEN <<>>
    ELSE TickedMessages(track, i - 1)
             \o (IF IsNoteMessage(track[i])
                 THEN <<[type |-> track[i].type, note |-> track[i].note,
                         tick |-> AbsTick(track, i)]>>
                 ELSE <<>>)

\* a note_on and a note_off per note at the ticks the claim gives
RECURSIVE ExpectedMessages(_, _)
ExpectedMessages(notes, bpm) ==
    IF notes = <<>> THEN <<>>
    ELSE <<[type |-> "note_on", note |-> Head(notes).midi_pitch,
            tick |-> NearestTick(Head(notes).start_sec, bpm)],
           [type |-> "note_off", note |-> Head(notes).midi_pitch,
            tick |-> NearestTick(Head(notes).end_sec, bpm)]>>
             \o ExpectedMessages(Tail(notes), bpm)

\* C16: for non-negative times and bpm >= 1 the written deltas are
\* non-negative and their running sum puts every note_on at
\* round(start_sec * bpm / 60 * 480) and every note_off at
\* round(end_sec * bpm / 60 * 480) (exactly, hence within +-1 tick)
DeltaRoundTrip ==
    ui = "exported" /\ NonNegativeTimes(current_notes)
          /\ settings.quantize_bpm >= 1 =>
        \A f \in 1..Len(files) :
            LET track == files[f].tracks[1]
            IN  /\ \A i \in 1..Len(track) : track[i].time >= 0
                /\ SameBag(TickedMessages(track, Len(track)),
                           ExpectedMessages(current_notes,
                                            settings.quantize_bpm))

\* two notes were exported and the second starts on a later tick
DeltaRoundTripWitness ==
    /\ ui = "exported"
    /\ NonNegativeTimes(current_notes)
    /\ Len(current_notes) = 2
    /\ current_notes[1].start_sec = Ms(100)
    /\ current_notes[2].start_sec = Ms(800)
    /\ settings.quantize_bpm = 97
    /\ Len(files) = 1
    /\ files[1].tracks[1][2].time = AbsTick(files[1].tracks[1], 2)
    /\ AbsTick(files[1].tracks[1], 4) = NearestTick(Ms(800), 97)

\* C17: in every per-stem track of _export_multitrack_midi the events are
\* ordered by tick and, at one tick, every note_off comes before every
\* note_on
StemTrackOffFirst ==
    ui = "exported_multitrack" =>
        \A f \in 1..Len(files) :
            \A k \in 2..Len(files[f].tracks) :
                /\ \A i \in 1..Len(files[f].tracks[k]) :
                       files[f].tracks[k][i].time >= 0
                /\ OffFirst(files[f].tracks[k])

\* C18: with mido missing, a requested multi-track export of N stems does
\* not end in an export failure and the fallback writes one single-track
\* file per stem
FallbackWritesPerStem ==
    ui # "idle" /\ ~mido_ok /\ stems_call.ok /\ stems_call.export_multitrack =>
        /\ ui = "exported_per_stem"
        /\ Len(files) = Len(stems_call.notes_by_stem)
        /\ \A i \in 1..Len(files) :
               /\ files[i].path
                      = <<StemsOutDir, stems_call.notes_by_stem[i].stem, ".mid">>
               /\ Len(files[i].tracks) = 1

----------------------------------------------------------------------------
(* Properties of the preview synthesis and of analyze_audio *)

\* C19: for an empty note list render_preview_wav writes a mono 16-bit WAV
\* at the requested rate sr (44100 when sr <= 0) holding floor(0.1 * sr)
\* frames, all zero
EmptyPreviewSilence ==
    wav # <<>> /\ current_notes = <<>> =>
        LET sr   == session[1].sample_rate
            rate == IF sr <= 0 THEN 44100 ELSE sr
            w    == wav[1]
        IN  /\ w.nchannels = 1
            /\ w.sampwidth = 2
            /\ w.framerate = rate
            /\ 10 * w.nframes <= rate
            /\ rate < 10 * (w.nframes + 1)
            /\ w.frames = "zero"

\* an empty list was rendered for a session whose rate is 0
EmptyPreviewSilenceWitness ==
    /\ wav # <<>>
    /\ current_notes = <<>>
    /\ session[1].sample_rate = 0
    /\ wav[1].nframes = 4410

\* the input exists, FFmpeg starts, and it exits non-zero or leaves no output
DecoderFails ==
    /\ env.input_exists
    /\ env.ffmpeg_found
    /\ env.returncode # 0 \/ ~env.out_exists

\* C20: a missing input, a non-zero decoder exit or an absent decoder output
\* ends analyze_audio with an exception that carries the decoder's text; the
\* decoder has run at most once, not at all for a missing input; no later
\* stage has run and no session is returned
DecodeFailureFatal ==
    an_pc \notin {"idle", "decode"} /\ (~env.input_exists \/ DecoderFails) =>
        /\ an_pc = "raised"
        /\ Len(an_error) = 1
        /\ session = <<>>
        /\ progress = <<5>>
        /\ \A i \in 1..Len(trace) : trace[i] = "ffmpeg"
        /\ Len(trace) <= 1
        /\ ~env.input_exists =>
               trace = <<>> /\ an_error[1].type = "FileNotFoundError"
        /\ DecoderFails =>
               /\ trace = <<"ffmpeg">>
               /\ an_error[1].type = "RuntimeError"
               /\ env.stderr # <<>> =>
                      an_error[1].diagnostic = <<"e", "r", "r">>
               /\ env.stderr = <<>> => an_error[1].diagnostic = env.stdout

\* FFmpeg exited with 1 after printing on stderr
DecodeFailureFatalWitness ==
    /\ an_pc = "raised"
    /\ env.input_exists
    /\ env.ffmpeg_found
    /\ env.returncode = 1
    /\ env.stderr = <<" ", "e", "r", "r", " ">>
    /\ trace = <<"ffmpeg">>
    /\ an_error[1].diagnostic = <<"e", "r", "r">>

\* C24: within one call of analyze_audio the percentages reported are
\* 5, 25, 55, 75, 100 in this order; a stage has run only after its
\* milestone was reported; 100 is reported only after decoding, loading,
\* transcription and post-processing succeeded, and a call that returns a
\* session has reported it; a call that raised reported less than 100
ProgressMilestones ==
    /\ \A i \in 1..Len(progress) : progress[i] = <<5, 25, 55, 75, 100>>[i]
    /\ \A i, j \in 1..Len(progress) : i < j => progress[i] < progress[j]
    /\ (\E i \in 1..Len(trace) : trace[i] = "ffmpeg") => Len(progress) >= 1
    /\ (\E i \in 1..Len(trace) : trace[i] = "load") => Len(progress) >= 2
    /\ (\E i \in 1..Len(trace) : trace[i] = "transcribe") => Len(progress) >= 3
    /\ (\E i \in 1..Len(trace) : trace[i] = "apply_tweaks")
           => Len(progress) >= 4
    /\ Len(progress) = 5 =>
           /\ an_error = <<>>
           /\ trace = <<"ffmpeg", "load", "transcribe", "apply_tweaks">>
           /\ an_pc \in {"return", "returned"}
    /\ (an_pc = "returned" <=> session # <<>>)
    /\ an_pc = "returned" => Len(progress) = 5
    /\ an_pc = "raised" =>
           /\ progress # <<>>
           /\ progress[Len(progress)] < 100
           /\ session = <<>>
           /\ Len(an_error) = 1

\* a call went through all stages and returned its session
ProgressMilestonesWitness ==
    /\ an_pc = "returned"
    /\ progress = <<5, 25, 55, 75, 100>>
    /\ Len(session[1].raw_notes) = 4

\* the number of notes of seq sounding at time t
Sounding(seq, t) ==
    Cardinality({i \in 1..Len(seq) :
                    seq[i].start_sec <= t /\ t < seq[i].end_sec})

SubBag(a, b) == \A x \in Elems(a) : Count(a, x) <= Count(b, x)

\* the cap as it is described, from its input in to its result res; the
\* number of sounding notes changes only at an onset
CapAsDescribed(in, res, k) ==
    /\ SubBag(res, in)
    /\ \A i \in 1..Len(res) : Sounding(res, res[i].start_sec) <= k
    /\ (\A i \in 1..Len(in) : Sounding(in, in[i].start_sec) <= k)
           => SameBag(res, in)

\* C25: for notes with end_sec > start_sec and max_polyphony = k >= 1 the
\* result of _cap_polyphony is a sub-multiset of its input with at most k
\* notes sounding at any time, a note ending at another's onset not
\* overlapping it, and nothing is removed from an input that never exceeds k
CapLimitsOverlap ==
    [][(pc = "cap_loop" /\ pc' = "quantize"
           /\ \A i \in 1..Len(out) : out[i].end_sec > out[i].start_sec)
          => CapAsDescribed(out, out', settings.max_polyphony)]_vars

\* three notes on one onset were capped to two
CapLimitsOverlapWitness ==
    /\ pc = "quantize"
    /\ settings.max_polyphony = 2
    /\ Len(raw_notes) = 3
    /\ \A i \in 1..3 : raw_notes[i].start_sec = 0
                          /\ raw_notes[i].end_sec = Ms(1000)
    /\ Len(out) = 2

\* no two notes of seq a merge with this gap would join
NothingToMerge(seq, gap) ==
    \A i, j \in 1..Len(seq) :
        (i # j /\ seq[i].midi_pitch = seq[j].midi_pitch
              /\ seq[i].start_sec <= seq[j].start_sec)
            => seq[j].start_sec > seq[i].end_sec + gap

\* C27: with merge_gap_ms > 0 and quantize off, any two distinct notes a, b
\* of one pitch in the output of apply_tweaks with a.start_sec <= b.start_sec
\* have b.start_sec > a.end_sec + merge_gap_ms/1000, and the merge stage
\* leaves its own output and the output of apply_tweaks unchanged
MergeLeavesNothingToMerge ==
    (settings.merge_gap_ms > 0 /\ ~settings.quantize) =>
        /\ pc = "cap" =>
              /\ NothingToMerge(out, Ms(settings.merge_gap_ms))
              /\ MergeGap(out, Ms(settings.merge_gap_ms)) = out
        /\ pc = "done" =>
              /\ NothingToMerge(current_notes, Ms(settings.merge_gap_ms))
              /\ MergeGap(current_notes, Ms(settings.merge_gap_ms))
                     = current_notes

\* two notes were joined and a third of the same pitch, 20 ms after them,
\* stayed apart at a gap of 10 ms
MergeLeavesNothingToMergeWitness ==
    /\ pc = "done"
    /\ settings.merge_gap_ms = 10
    /\ Len(raw_notes) = 3
    /\ Len(current_notes) = 2
    /\ current_notes[1].midi_pitch = current_notes[2].midi_pitch
    /\ current_notes[2].start_sec = current_notes[1].end_sec + Ms(20)

\* the rearrangements of seq
Rearrangements(seq) ==
    {[i \in 1..Len(seq) |-> seq[f[i]]] :
        f \in {g \in [1..Len(seq) -> 1..Len(seq)] :
                  \A i, j \in 1..Len(seq) : g[i] = g[j] => i = j}}

\* C28: apply_tweaks returns the same sequence for every permutation of
\* the same raw notes, also for notes that share onset, pitch or velocity
OrderIndependent ==
    pc = "done" =>
        \A p \in Rearrangements(raw_notes) :
            ApplyTweaks(p, settings) = current_notes

\* the conditions under which the transcription has nothing to fail on
NothingFails(e) ==
    /\ e.input_exists
    /\ e.returncode = 0
    /\ e.out_exists
    /\ e.model_found
    /\ e.midi_produced
    /\ e.midi.readable

\* C23: analyze_bu.analyze_audio never raises; whenever decoding, model
\* lookup, inference or MIDI parsing cannot succeed it returns the seven
\* dummy notes and its warnings end with 'basic_pitch failed: <the error
\* raised>' followed by 'Falling back to dummy notes.'
FallbackNeverRaises ==
    /\ bu_pc # "raised"
    /\ (bu_pc = "returned" /\ ~NothingFails(bu_env)) =>
           /\ bu_exc # <<>>
           /\ bu_return[1].notes = DummyNotes
           /\ bu_return[1].sr = 44100
           /\ Len(bu_return[1].warnings) = 2
           /\ bu_return[1].warnings[1].text = "basic_pitch failed"
           /\ bu_return[1].warnings[1].type = bu_exc[1].type
           /\ bu_return[1].warnings[1].message = bu_exc[1].message
           /\ bu_return[1].warnings[2].text = "Falling back to dummy notes."

\* a call on a missing input file returned the dummy notes
FallbackNeverRaisesWitness ==
    /\ bu_pc = "returned"
    /\ ~bu_env.input_exists
    /\ Len(bu_return[1].notes) = 7
    /\ Len(bu_return[1].warnings) = 2
    /\ bu_return[1].warnings[1].text = "basic_pitch failed"

\* C26: when the input exists, FFmpeg decodes it and Basic Pitch leaves a
\* MIDI file, analyze_bu.analyze_audio returns the notes parsed from that
\* file and no 'basic_pitch failed' warning
ReturnsParsedNotes ==
    (bu_pc = "returned" /\ NothingFails(bu_env)) =>
        /\ bu_return[1].notes = MidiToNotes(bu_env.midi)
        /\ \A i \in 1..Len(bu_return[1].warnings) :
               bu_return[1].warnings[i].text # "basic_pitch failed"

\* C21: at most one analysis worker is started and not yet reported at any
\* time, over every sequence of open-audio, analyze-click, analysis-done
\* and analysis-failed events
OneAnalysisInFlight == Len(workers) <= 1

NotesFollowSession ==
    (app = "running" /\ current_notes # <<>>) =>
        /\ session # <<>>
        /\ current_notes = ApplyTweaks(session[1].raw_notes, settings)

\* C30: what play_midi hands to the player is a preview.wav rendered from
\* the notes current at that moment, never a file cached from an earlier
\* note list
PlaysCurrentNotes ==
    \A i \in 1..Len(midi_player) :
        midi_player[i].rendered_from = midi_player[i].current_notes

====
